---- MODULE Spec2Model ----
(***************************************************************************)
(* dctrl5g: the reconciliation core of the declarative 5G control plane.   *)
(*                                                                         *)
(* The store is one shared view cache (internal/dctrl/dctrl.go:60-66).     *)
(* Every control loop is one action: it reads the current versions of its  *)
(* inputs for one key, applies its transform and commits its writes        *)
(* atomically.  A loop with a GenerationChanged predicate is driven by a   *)
(* pending-event set (its source's spec changed, or the source was created *)
(* or deleted); every other loop is enabled exactly when its transform     *)
(* would change its target, a run that changes nothing being a stuttering  *)
(* step.                                                                   *)
(*                                                                         *)
(* The declarative pipelines (internal/operators/{amf,ausf,smf,pcf,upf}    *)
(* .yaml, named by main.go:24-28) are modelled from their description in   *)
(* README.md and from the behaviour the test suites fix; the               *)
(* UDM reconciler is modelled from internal/operators/udm/udm.go.          *)
(***************************************************************************)
EXTENDS Integers, FiniteSets, Sequences, TLC

\* Number of user operations (create / delete of user-facing resources)
\* explored in one behaviour.
MaxUserOps == 3

\* Number of user operations on Sessions and ContextReleases explored in one
\* behaviour of the session workflow.
MaxSessionOps == 5

\* Hours the clock advances in one behaviour.
MaxTime == 2

\* Errors the operators leave on the error channel at one time in one
\* behaviour (the channel itself holds ErrorChanSize).
MaxErrors == 1

-----------------------------------------------------------------------------
(* Fixtures *)

\* Keys of the user-created Registrations (one namespace; the key stands for
\* namespace/name).
Regs == {"user-1", "user-2"}

\* The AMF's table always holds one fixture member next to the live ones
\* (amf_test.go:850,878,900: 3, 2 and 1 entries for 2, 1 and 0 live ones).
TestReg == "test-reg"

SuciC0 == "suci-0-999-01-02-4f2a7b9c8d13e7a5c0"
SuciC1 == "suci-0-999-01-02-4f2a7b9c8d13e7a5c1"
GutiE0 == "guti-310-170-3F-152-2A-B7C8D9E0"
GutiE1 == "guti-310-170-3F-152-2A-B7C8D9E1"
GutiTest == "guti-test"

\* AUSF: the static SUCI-to-SUPI table.
SuciToSupiTable == (SuciC0 :> "supi-0") @@ (SuciC1 :> "supi-1")

\* AMF: the static SUPI-to-GUTI table.
SupiToGutiTable == ("supi-0" :> GutiE0) @@ ("supi-1" :> GutiE1)

Gutis == {GutiE0, GutiE1}

\* Keys of the user-created Sessions and ContextReleases, and the fixture
\* member of the SMF's and the UPF's tables (smf_test.go:155,187,212,
\* amf_test.go:1277-1278).
Sessions == {"user-1"}
TestSession == "test-session"

\* PCF: the static policy table (smf_test.go:74-86: the flows kept and the
\* bitrate they are capped at).
MaxBwKbps == 128
PolicyTable ==
    [fiveQI |-> {"ConversationalVoice", "BestEffort"},
     uplinkBwKbps |-> MaxBwKbps, downlinkBwKbps |-> MaxBwKbps]

\* SMF: the address pool and the DNS servers handed out.
IpPool == {"10.45.0.100", "10.45.0.101"}
DnsServers == "8.8.8.8,8.8.4.4"

-----------------------------------------------------------------------------
(* Conditions *)

Cond(s, r) == [status |-> s, reason |-> r]
Unknown == Cond("Unknown", "")
\* A condition that has not been written at all.
NoCond == Cond("", "")

IsTrue(c) == c.status = "True"

-----------------------------------------------------------------------------
(* Registration specs *)

RegSpec(rt, n1, idt, idv, ea, ia) ==
    [registrationType |-> rt, n1Mode |-> n1, idType |-> idt, idValue |-> idv,
     encryptionAlgorithms |-> ea, integrityAlgorithms |-> ia]

AllEA == {"5G-EA0", "5G-EA1", "5G-EA2", "5G-EA3"}
AllIA == {"5G-IA0", "5G-IA1", "5G-IA2", "5G-IA3"}

\* regTemplate of the test suite, and the rejected variants of amf_test.go.
LegitReg(suci) == RegSpec("initial", TRUE, "SUCI", suci, AllEA, AllIA)
InvalidTypeReg == RegSpec("dummy", FALSE, "", "", {}, {})
InvalidStandardReg == RegSpec("initial", FALSE, "", "", AllEA, AllIA)
EmptyIdentityReg == RegSpec("initial", TRUE, "", "", AllEA, AllIA)
UnsupportedCypherReg == RegSpec("initial", TRUE, "SUCI", SuciC0, {"dummy"}, {"dummy"})
UnknownUserReg == LegitReg("dummy")

RegFixtures ==
    {LegitReg(SuciC0), LegitReg(SuciC1), UnknownUserReg, InvalidTypeReg,
     InvalidStandardReg, EmptyIdentityReg, UnsupportedCypherReg}

-----------------------------------------------------------------------------
VARIABLES
    registration,   \* AMF:Registration, key -> [spec, status]
    regstate,       \* AMF:RegState, key -> internal registration state
    mobileid,       \* AUSF:MobileIdentity, key -> request and its status
    udmconfig,      \* UDM:Config, GUTI -> request and its status
    regtable,       \* AMF:ActiveRegistrationTable, the set of its entries
    cfgreq,         \* register-config-req: the Config each RegState emitted
    cfgq,           \* register-config-req: the changes of its view not yet emitted
    pendInput,      \* Registrations whose spec event register-input owes
    pendAusf,       \* MobileIdentities whose spec event the AUSF owes
    pendUdm,        \* Configs whose Added/Updated event the UDM owes
    deleted,        \* history: the GUTI a Registration showed when deleted
    ops,            \* number of user operations on Registrations so far
    session,        \* AMF:Session, key -> [spec, status]
    sessionctx,     \* SMF:SessionContext, key -> internal session state
    upfconfig,      \* UPF:Config, key -> traffic spec
    ctxrelease,     \* AMF:ContextRelease, key -> [spec, ready]
    sesstable,      \* SMF:ActiveSessionTable, the set of its entries
    cfgtable,       \* UPF:ActiveConfigTable, the set of its entries
    pendSession,    \* session-input: Sessions with an undelivered event
    idlereq,        \* session-context-release-output: the patch each ContextRelease emitted
    idleq,          \* session-context-release-output: the changes of its view not yet emitted
    snapshot,       \* history: the active session as it was when its ContextRelease was created
    cycles,         \* history: number of idle ContextReleases deleted
    sops,           \* number of user operations on Sessions and ContextReleases so far
    now,            \* the wall clock, in hours
    backoff,        \* UDM: requests Reconcile failed, waiting for their retry
    rebuild,        \* AMF: the rebuild of ActiveRegistrationTable in progress
    deletedReq,     \* UDM: the Deleted request of each Config: none, queued, or logged by Reconcile
    options,        \* the command line and the environment New meets
    main,           \* main: its position and the error it got
    dctrl,          \* the Dctrl New returned
    ctx,            \* the context main hands to Start
    running,        \* Start's goroutines and the shared store: what each is doing
    errorChan,      \* Dctrl.errorChan: errors waiting, whether it is closed, and whether a send on it panicked
    udmErrorChan    \* the channel udm.New makes: errors waiting

regvars == <<registration, regstate, mobileid, udmconfig, regtable, cfgreq, cfgq,
             pendInput, pendAusf, pendUdm, deleted, ops, backoff, rebuild, deletedReq>>

sessvars == <<session, sessionctx, upfconfig, ctxrelease, sesstable, cfgtable,
              pendSession, idlereq, idleq, snapshot, cycles, sops>>

vars == <<registration, regstate, mobileid, udmconfig, regtable, cfgreq, cfgq,
          pendInput, pendAusf, pendUdm, deleted, ops,
          session, sessionctx, upfconfig, ctxrelease, sesstable, cfgtable,
          pendSession, idlereq, idleq, snapshot, cycles, sops,
          now, backoff, rebuild, deletedReq, options, main, dctrl, ctx, running, errorChan,
          udmErrorChan>>

procvars == <<options, main, dctrl, ctx, running, errorChan, udmErrorChan>>

\* No rebuild of ActiveRegistrationTable is in progress; raced records that
\* a rebuild has written a table the member set had already moved on from.
NoRebuild == [reading |-> FALSE, members |-> {}, raced |-> FALSE]

\* f without key k / f with key k set to v.
Drop(f, k) == [x \in DOMAIN f \ {k} |-> f[x]]
Put(f, k, v) == [x \in DOMAIN f \cup {k} |-> IF x = k THEN v ELSE f[x]]

-----------------------------------------------------------------------------
(* AMF register-input *)

\* The checks with the first two in the other order.
ValidateStandardFirst(spec) ==
    IF ~spec.n1Mode THEN Cond("False", "StandardNotSupported")
    ELSE IF spec.registrationType # "initial" THEN Cond("False", "InvalidType")
    ELSE IF spec.idType # "SUCI" \/ spec.idValue = "" THEN Cond("False", "SuciNotFound")
    ELSE IF "5G-EA2" \notin spec.encryptionAlgorithms \/ "5G-IA2" \notin spec.integrityAlgorithms
         THEN Cond("False", "EncyptionNotSupported")
    ELSE Cond("True", "Validated")

\* The checks of register-input, in their order.
Validate(spec) ==
    IF spec.registrationType # "initial" THEN Cond("False", "InvalidType")
    ELSE IF ~spec.n1Mode THEN Cond("False", "StandardNotSupported")
    ELSE IF spec.idType # "SUCI" \/ spec.idValue = "" THEN Cond("False", "SuciNotFound")
    ELSE IF "5G-EA2" \notin spec.encryptionAlgorithms
            \/ "5G-IA2" \notin spec.integrityAlgorithms
         THEN Cond("False", "EncyptionNotSupported")
    ELSE Cond("True", "Validated")

\* The RegState register-input writes: status fields initialised, Validated set.
NewRegState(spec) ==
    [suci |-> spec.idValue,
     validated |-> Validate(spec),
     authenticated |-> Unknown,
     subscriptionInfo |-> Unknown,
     guti |-> "",
     config |-> ""]

\* History: a deleted Registration's cascade is complete once its RegState,
\* its MobileIdentity and the Config named by its GUTI are absent and the
\* table has no entry for it; the first such state after the delete is
\* remembered.
CascadeDone(r, g) ==
    /\ r \notin DOMAIN regstate
    /\ r \notin DOMAIN mobileid
    /\ g \notin DOMAIN udmconfig
    /\ ~\E e \in regtable : e.name = r

\* The same of the state a step leads to.
CascadeDoneNext(r, g) ==
    /\ r \notin DOMAIN regstate'
    /\ r \notin DOMAIN mobileid'
    /\ g \notin DOMAIN udmconfig'
    /\ ~\E e \in regtable' : e.name = r

Track ==
    deleted' = [r \in Regs |->
                  IF deleted[r].guti # "" /\ CascadeDoneNext(r, deleted[r].guti)
                  THEN [deleted[r] EXCEPT !.cascaded = TRUE]
                  ELSE deleted[r]]

\* The view of register-config-req: the Config a RegState wants is the one
\* named by its GUTI while Authenticated is True, none otherwise.
ConfigReqWanted(rss, r) ==
    IF r \in DOMAIN rss /\ IsTrue(rss[r].authenticated)
    THEN rss[r].guti ELSE ""

\* register-config-req that sees the additions to its view only: the Config
\* of a RegState that is deleted or loses its authentication stays behind.
ConfigReqEventAddOnly(rss, r) ==
    LET last == IF cfgq[r] = <<>> THEN cfgreq[r] ELSE cfgq[r][Len(cfgq[r])] IN
    IF ConfigReqWanted(rss, r) \in {last, ""} THEN cfgq
    ELSE [cfgq EXCEPT ![r] = Append(cfgq[r], ConfigReqWanted(rss, r))]

\* A write of RegState r reaches register-config-req as a change of its view
\* when the Config r wants is no longer the last one queued or emitted.
ConfigReqEvent(rss, r) ==
    LET last == IF cfgq[r] = <<>> THEN cfgreq[r] ELSE cfgq[r][Len(cfgq[r])] IN
    IF ConfigReqWanted(rss, r) = last THEN cfgq
    ELSE [cfgq EXCEPT ![r] = Append(cfgq[r], ConfigReqWanted(rss, r))]

\* register-input that takes the create and the delete of a Registration and
\* passes over the update of one it has a RegState for.
RegisterInputCreateOnly(r) ==
    /\ r \in pendInput
    /\ pendInput' = pendInput \ {r}
    /\ regstate' = IF r \in DOMAIN registration
                   THEN IF r \in DOMAIN regstate THEN regstate
                        ELSE Put(regstate, r, NewRegState(registration[r].spec))
                   ELSE Drop(regstate, r)
    /\ cfgq' = ConfigReqEvent(regstate', r)
    /\ UNCHANGED <<registration, mobileid, udmconfig, regtable, cfgreq,
                   pendAusf, pendUdm, ops, sessvars, now, backoff, rebuild, deletedReq, procvars>>
    /\ Track

RegisterInput(r) ==
    /\ r \in pendInput
    /\ pendInput' = pendInput \ {r}
    /\ regstate' = IF r \in DOMAIN registration
                   THEN Put(regstate, r, NewRegState(registration[r].spec))
                   ELSE Drop(regstate, r)
    /\ cfgq' = ConfigReqEvent(regstate', r)
    /\ UNCHANGED <<registration, mobileid, udmconfig, regtable, cfgreq,
                   pendAusf, pendUdm, ops, sessvars, now, backoff, rebuild, deletedReq, procvars>>
    /\ Track

-----------------------------------------------------------------------------
(* AMF register-identity-req, AUSF supi-req-handler, AMF register-identity-handler *)

\* A MobileIdentity request as the AMF writes it: spec only, no status, no label.
NewMobileIdentity(suci) == [suci |-> suci, ready |-> NoCond, supi |-> "", label |-> ""]

\* register-identity-req without its predicate.
IdentityReqGateAny(r) == r \in DOMAIN regstate

\* register-identity-req admits a RegState only while Validated is True.
IdentityReqGate(r) == r \in DOMAIN regstate /\ IsTrue(regstate[r].validated)

\* The request is written while the gate holds and removed when it stops
\* holding (the RegState was deleted or is no longer validated).
RegisterIdentityReq(r) ==
    /\ \/ /\ IdentityReqGate(r)
          /\ IF r \in DOMAIN mobileid THEN mobileid[r].suci # regstate[r].suci ELSE TRUE
          /\ mobileid' = Put(mobileid, r, NewMobileIdentity(regstate[r].suci))
          /\ pendAusf' = pendAusf \cup {r}
       \/ /\ ~IdentityReqGate(r)
          /\ r \in DOMAIN mobileid
          /\ mobileid' = Drop(mobileid, r)
          /\ pendAusf' = pendAusf \ {r}
    /\ UNCHANGED <<registration, regstate, udmconfig, regtable, cfgreq, cfgq,
                   pendInput, pendUdm, ops, sessvars, now, backoff, rebuild, deletedReq, procvars>>
    /\ Track

\* The lookup that labels the request only when the SUCI is found.
SupiLookupLabelOnHit(mi) ==
    IF mi.suci \in DOMAIN SuciToSupiTable
    THEN [mi EXCEPT !.ready = Cond("True", "Ready"),
                    !.supi = SuciToSupiTable[mi.suci],
                    !.label = "Ready"]
    ELSE [mi EXCEPT !.ready = Cond("False", "MobileIdentityNotFound"),
                    !.supi = ""]

\* AUSF: the lookup of the SUCI; the request is labelled state=Ready in both
\* outcomes.
SupiLookup(mi) ==
    IF mi.suci \in DOMAIN SuciToSupiTable
    THEN [mi EXCEPT !.ready = Cond("True", "Ready"),
                    !.supi = SuciToSupiTable[mi.suci],
                    !.label = "Ready"]
    ELSE [mi EXCEPT !.ready = Cond("False", "MobileIdentityNotFound"),
                    !.supi = "",
                    !.label = "Ready"]

SupiReqHandler(r) ==
    /\ r \in pendAusf
    /\ pendAusf' = pendAusf \ {r}
    /\ mobileid' = IF r \in DOMAIN mobileid
                   THEN [mobileid EXCEPT ![r] = SupiLookup(mobileid[r])]
                   ELSE mobileid
    /\ UNCHANGED <<registration, regstate, udmconfig, regtable, cfgreq, cfgq,
                   pendInput, pendUdm, ops, sessvars, now, backoff, rebuild, deletedReq, procvars>>
    /\ Track

\* The GUTI the AMF derives from a SUPI ("" when the SUPI is not mapped).
GutiOf(supi) == IF supi \in DOMAIN SupiToGutiTable THEN SupiToGutiTable[supi] ELSE ""

\* register-identity-handler: the join of a validated RegState with its
\* answered (state=Ready) MobileIdentity; without the joined row the fields
\* the handler patches are absent.
IdentityResult(r) ==
    IF IsTrue(regstate[r].validated) /\ r \in DOMAIN mobileid /\ mobileid[r].label = "Ready"
    THEN IF IsTrue(mobileid[r].ready) /\ GutiOf(mobileid[r].supi) # ""
         THEN [authenticated |-> Cond("True", "AuthenticationSuccess"),
               guti |-> GutiOf(mobileid[r].supi)]
         ELSE [authenticated |-> Cond("False", "SupiNotFound"), guti |-> ""]
    ELSE [authenticated |-> Unknown, guti |-> ""]

RegisterIdentityHandler(r) ==
    /\ r \in DOMAIN regstate
    /\ LET res == IdentityResult(r) IN
       /\ <<regstate[r].authenticated, regstate[r].guti>> # <<res.authenticated, res.guti>>
       /\ regstate' = [regstate EXCEPT ![r].authenticated = res.authenticated,
                                       ![r].guti = res.guti]
    /\ cfgq' = ConfigReqEvent(regstate', r)
    /\ UNCHANGED <<registration, mobileid, udmconfig, regtable, cfgreq,
                   pendInput, pendAusf, pendUdm, ops, sessvars,
                   now, backoff, rebuild, deletedReq, procvars>>
    /\ Track

-----------------------------------------------------------------------------
(* AMF register-config-req, UDM config controller, AMF register-config-handler *)

\* A Config request as the AMF writes it: metadata only, no status.
NoConfigStatus == <<>>
NewConfig == [label |-> "", status |-> NoConfigStatus]

\* register-config-req emits the changes of its view in their order: it
\* deletes the Config it had emitted for r and writes the one r wants now.
\* The Deleted request the removal leaves with the UDM, which Reconcile only
\* logs, is taken as handled with the removal.
RegisterConfigReq(r) ==
    /\ cfgq[r] # <<>>
    /\ LET old == cfgreq[r]
           new == Head(cfgq[r])
           removed == IF old # "" THEN Drop(udmconfig, old) ELSE udmconfig
           added == new # "" /\ new \notin DOMAIN removed
       IN  /\ cfgq' = [cfgq EXCEPT ![r] = Tail(cfgq[r])]
           /\ cfgreq' = [cfgreq EXCEPT ![r] = new]
           /\ udmconfig' = IF added THEN Put(removed, new, NewConfig) ELSE removed
           /\ pendUdm' = IF added THEN (pendUdm \ {old}) \cup {new} ELSE pendUdm \ {old}
    /\ UNCHANGED <<registration, regstate, mobileid, regtable,
                   pendInput, pendAusf, ops, sessvars, now, backoff, rebuild, deletedReq, procvars>>
    /\ Track

\* udm.go getKubeConfig: the credential names the Config and carries a token
\* issued at the time of the call for TokenLifetime hours.
TokenLifetime == 168
KubeConfig(guti, t) == "kubeconfig-" \o guti \o "-until-" \o ToString(t + TokenLifetime)

\* getKubeConfig's result when it has none.
NilConfig == "nil"

\* setStatus that writes the config field whatever it is given.
SetStatusConfigAlways(obj, result, reason, config, t) ==
    [obj EXCEPT
       !.label = "ConfigAvailable",
       !.status = [conditions |-> <<[type |-> "Ready", status |-> result,
                                     reason |-> reason, lastTransitionTime |-> t]>>,
                   config |-> IF config # NilConfig THEN config ELSE ""]]

\* udm.go setStatus: the label, a status of one Ready condition stamped with
\* the time of the call, and the config field when there is a config.
SetStatus(obj, result, reason, config, t) ==
    [obj EXCEPT
       !.label = "ConfigAvailable",
       !.status = IF config # NilConfig
                  THEN [conditions |-> <<[type |-> "Ready", status |-> result,
                                          reason |-> reason, lastTransitionTime |-> t]>>,
                        config |-> config]
                  ELSE [conditions |-> <<[type |-> "Ready", status |-> result,
                                          reason |-> reason, lastTransitionTime |-> t]>>]]

\* The object Reconcile hands to the store: the answer to the request.
Answer(g, genOK) ==
    IF genOK
    THEN SetStatus(udmconfig[g], "True", "Ready", KubeConfig(g, now), now)
    ELSE SetStatus(udmconfig[g], "False", "ConfigUnavailable", NilConfig, now)

\* A Reconcile over a source without the GenerationChanged predicate: the
\* update of the status it writes comes back as an event of the Config.
ReconcileRetriggered(g, genOK, updOK) ==
    /\ g \in pendUdm
    /\ IF g \notin DOMAIN udmconfig
       THEN /\ udmconfig' = udmconfig
            /\ pendUdm' = pendUdm \ {g}
            /\ backoff' = backoff \cup {g}
       ELSE /\ udmconfig' = IF updOK
                            THEN [udmconfig EXCEPT ![g] = Answer(g, genOK)]
                            ELSE udmconfig
            /\ pendUdm' = IF updOK /\ Answer(g, genOK) # udmconfig[g]
                          THEN pendUdm ELSE pendUdm \ {g}
            /\ backoff' = IF genOK THEN backoff \ {g} ELSE backoff \cup {g}
    /\ UNCHANGED <<registration, regstate, mobileid, regtable, cfgreq, cfgq,
                   pendInput, pendAusf, ops, sessvars, now, rebuild, deletedReq, procvars>>
    /\ Track

\* udm.go Reconcile for an Added/Updated/Upserted request; genOK is whether
\* getKubeConfig succeeds, updOK whether the store takes the update.  A
\* request whose object is gone fails in Get.  Reconcile returns the failure
\* of Get and of getKubeConfig, and the controller keeps such a request for a
\* later retry; a failure of the update is logged and the request is done.
Reconcile(g, genOK, updOK) ==
    /\ g \in pendUdm
    /\ pendUdm' = pendUdm \ {g}
    /\ IF g \notin DOMAIN udmconfig
       THEN /\ udmconfig' = udmconfig
            /\ backoff' = backoff \cup {g}
       ELSE /\ udmconfig' = IF updOK
                            THEN [udmconfig EXCEPT ![g] = Answer(g, genOK)]
                            ELSE udmconfig
            /\ backoff' = IF genOK THEN backoff \ {g} ELSE backoff \cup {g}
    /\ UNCHANGED <<registration, regstate, mobileid, regtable, cfgreq, cfgq,
                   pendInput, pendAusf, ops, sessvars, now, rebuild, deletedReq, procvars>>
    /\ Track

\* The controller retries a request Reconcile failed, after a delay.
Retry(g) ==
    /\ g \in backoff
    /\ backoff' = backoff \ {g}
    /\ pendUdm' = pendUdm \cup {g}
    /\ UNCHANGED <<registration, regstate, mobileid, udmconfig, regtable, cfgreq, cfgq,
                   pendInput, pendAusf, deleted, ops, sessvars, now, rebuild, deletedReq, procvars>>

\* The event of a Config is delivered again.
Redeliver(g) ==
    /\ g \in DOMAIN udmconfig
    /\ g \notin pendUdm
    /\ pendUdm' = pendUdm \cup {g}
    /\ UNCHANGED <<registration, regstate, mobileid, udmconfig, regtable, cfgreq, cfgq,
                   pendInput, pendAusf, deleted, ops, sessvars, now, backoff, rebuild, deletedReq, procvars>>

\* An hour passes.
Tick ==
    /\ now < MaxTime
    /\ now' = now + 1
    /\ UNCHANGED <<regvars, sessvars, procvars>>

\* The Ready condition of a Config and the config of its status, as a join
\* reads them.
ConfigReady(c) ==
    /\ "conditions" \in DOMAIN c.status
    /\ \E i \in DOMAIN c.status.conditions :
         c.status.conditions[i].type = "Ready" /\ c.status.conditions[i].status = "True"

ConfigOf(c) == IF "config" \in DOMAIN c.status THEN c.status.config ELSE ""

\* register-config-handler: the join of an authenticated RegState with the
\* answered (state=ConfigAvailable) Config named by its GUTI.
ConfigResult(r) ==
    LET g == regstate[r].guti IN
    IF IsTrue(regstate[r].authenticated) /\ g \in DOMAIN udmconfig
       /\ udmconfig[g].label = "ConfigAvailable"
    THEN IF ConfigReady(udmconfig[g])
         THEN [subscriptionInfo |-> Cond("True", "ConfigReady"),
               config |-> ConfigOf(udmconfig[g])]
         ELSE [subscriptionInfo |-> Cond("False", "ConfigNotFound"), config |-> ""]
    ELSE [subscriptionInfo |-> Unknown, config |-> ""]

RegisterConfigHandler(r) ==
    /\ r \in DOMAIN regstate
    /\ LET res == ConfigResult(r) IN
       /\ <<regstate[r].subscriptionInfo, regstate[r].config>> # <<res.subscriptionInfo, res.config>>
       /\ regstate' = [regstate EXCEPT ![r].subscriptionInfo = res.subscriptionInfo,
                                       ![r].config = res.config]
    /\ UNCHANGED <<registration, mobileid, udmconfig, regtable, cfgreq, cfgq,
                   pendInput, pendAusf, pendUdm, ops, sessvars,
                   now, backoff, rebuild, deletedReq, procvars>>
    /\ Track

-----------------------------------------------------------------------------
(* AMF register-output, active-registration *)

NoStatus ==
    [ready |-> NoCond, validated |-> NoCond, authenticated |-> NoCond,
     subscriptionInfoRetrieved |-> NoCond, guti |-> "", config |-> ""]

\* Ready without the last condition.
RegReadyAuthenticated(rs) ==
    IsTrue(rs.validated) /\ IsTrue(rs.authenticated)

\* RegState is Ready when its three conditions are True.
RegReady(rs) ==
    IsTrue(rs.validated) /\ IsTrue(rs.authenticated) /\ IsTrue(rs.subscriptionInfo)

\* register-output without its predicate.
RegisterOutputGateAlways(rs) == TRUE

\* register-output gated on the SubscriptionInfoRetrieved condition alone.
RegisterOutputGateDefinite(rs) == rs.subscriptionInfo.status \in {"True", "False"}

\* register-output admits a RegState whose outcome is decided: the
\* SubscriptionInfoRetrieved condition has a definite value, or an earlier
\* step has failed (amf_test.go:389-728 read Ready=False from the
\* Registration while Authenticated is still Unknown).
RegisterOutputGate(rs) ==
    \/ rs.subscriptionInfo.status \in {"True", "False"}
    \/ rs.validated.status = "False"
    \/ rs.authenticated.status = "False"

\* The status register-output writes into the Registration.
RegisterOutputStatus(rs) ==
    [ready |-> IF RegReady(rs)
               THEN Cond("True", "RegistrationSuccessful")
               ELSE Cond("False", "RegistrationFailed"),
     validated |-> rs.validated,
     authenticated |-> rs.authenticated,
     subscriptionInfoRetrieved |-> rs.subscriptionInfo,
     guti |-> rs.guti,
     config |-> rs.config]

RegisterOutput(r) ==
    /\ r \in DOMAIN regstate
    /\ r \in DOMAIN registration
    /\ RegisterOutputGate(regstate[r])
    /\ registration[r].status # RegisterOutputStatus(regstate[r])
    /\ registration' = [registration EXCEPT ![r].status = RegisterOutputStatus(regstate[r])]
    /\ UNCHANGED <<regstate, mobileid, udmconfig, regtable, cfgreq, cfgq,
                   pendInput, pendAusf, pendUdm, ops, sessvars,
                   now, backoff, rebuild, deletedReq, procvars>>
    /\ Track

RegEntry(r, rs) == [name |-> r, guti |-> rs.guti, suci |-> rs.suci]

\* The gather without the gate.
AllRegistrations(rss) ==
    {RegEntry(r, rss[r]) : r \in DOMAIN rss}

\* The gather of active-registration: one entry per RegState that is Ready.
ActiveRegistrations(rss) ==
    {RegEntry(r, rss[r]) : r \in {x \in DOMAIN rss : RegReady(rss[x])}}

ActiveRegistration ==
    /\ regtable # ActiveRegistrations(regstate)
    /\ regtable' = ActiveRegistrations(regstate)
    /\ UNCHANGED <<registration, regstate, mobileid, udmconfig, cfgreq, cfgq,
                   pendInput, pendAusf, pendUdm, ops, sessvars,
                   now, backoff, rebuild, deletedReq, procvars>>
    /\ Track

\* The rebuild of the table as two steps, with the membership free to change
\* in between: active-registration reads the member set as it is at one
\* moment, and writes the table it has gathered later.  A change of the
\* member set that the table does not show yet triggers the next rebuild; this
\* one does not run again after a rebuild has written a stale table.
ActiveRegistrationReadOnce ==
    /\ ~rebuild.reading
    /\ ~rebuild.raced
    /\ regtable # ActiveRegistrations(regstate)
    /\ rebuild' = [rebuild EXCEPT !.reading = TRUE,
                                  !.members = ActiveRegistrations(regstate)]
    /\ UNCHANGED <<registration, regstate, mobileid, udmconfig, regtable, cfgreq, cfgq,
                   pendInput, pendAusf, pendUdm, deleted, ops, sessvars,
                   now, backoff, deletedReq, procvars>>

ActiveRegistrationRead ==
    /\ ~rebuild.reading
    /\ regtable # ActiveRegistrations(regstate)
    /\ rebuild' = [rebuild EXCEPT !.reading = TRUE,
                                  !.members = ActiveRegistrations(regstate)]
    /\ UNCHANGED <<registration, regstate, mobileid, udmconfig, regtable, cfgreq, cfgq,
                   pendInput, pendAusf, pendUdm, deleted, ops, sessvars,
                   now, backoff, deletedReq, procvars>>

ActiveRegistrationWrite ==
    /\ rebuild.reading
    /\ regtable' = rebuild.members
    /\ rebuild' = [reading |-> FALSE, members |-> {},
                   raced |-> rebuild.raced \/ rebuild.members # ActiveRegistrations(regstate)]
    /\ UNCHANGED <<registration, regstate, mobileid, udmconfig, cfgreq, cfgq,
                   pendInput, pendAusf, pendUdm, ops, sessvars,
                   now, backoff, deletedReq, procvars>>
    /\ Track

-----------------------------------------------------------------------------
(* Sessions: the fixtures *)

SessSpec(guti, nssai, id, pdu, requests, flows, rules) ==
    [guti |-> guti, nssai |-> nssai, sessionId |-> id, pduSessionType |-> pdu,
     requests |-> requests, flows |-> flows, rules |-> rules]

\* A flow; one that asks for no bitRates carries 0.
Flow(name, fiveQI, up, down) ==
    [name |-> name, fiveQI |-> fiveQI, uplinkBwKbps |-> up, downlinkBwKbps |-> down]

\* The session id the tests use.
SessionId == 5

\* The bitrate the voice flow of the session template asks for.
TemplateBwKbps == 256

TemplateRequests == {"IPConfiguration", "DNSServer"}
TemplateFlows ==
    {Flow("voice-flow", "ConversationalVoice", TemplateBwKbps, TemplateBwKbps),
     Flow("best-effort-flow", "BestEffort", 0, 0),
     Flow("dummy-flow", "Dummy", 0, 0)}
TemplateRules == {"voice-rule", "default-rule"}

LegitSession ==
    SessSpec(GutiE0, "eMBB", SessionId, "IPv4", TemplateRequests, TemplateFlows, TemplateRules)
NoNetconfSession == [LegitSession EXCEPT !.requests = {}]
NoFlowspecSession == [LegitSession EXCEPT !.flows = {}, !.rules = {}]
InvalidNssaiSession == [LegitSession EXCEPT !.nssai = "dummy"]
NoGutiSession == [LegitSession EXCEPT !.guti = ""]
UnknownGutiSession == [LegitSession EXCEPT !.guti = "dummy"]
Ipv6Session == [LegitSession EXCEPT !.pduSessionType = "IPv6"]

SessionFixtures ==
    {LegitSession, NoNetconfSession, NoFlowspecSession, InvalidNssaiSession,
     NoGutiSession, UnknownGutiSession, Ipv6Session}

ReleaseSpec(guti, id) == [guti |-> guti, sessionId |-> id]

\* The id of a session that does not exist.
OtherSessionId == 1

ReleaseFixtures ==
    {ReleaseSpec(GutiE0, SessionId), ReleaseSpec("dummy", SessionId),
     ReleaseSpec("", SessionId), ReleaseSpec(GutiE0, OtherSessionId)}

-----------------------------------------------------------------------------
(* AMF session-input *)

TableGutis(table) == {e.guti : e \in table}

SuciOfGuti(table, guti) ==
    IF guti \in TableGutis(table)
    THEN (CHOOSE e \in table : e.guti = guti).suci
    ELSE ""

SupiOfGuti(guti) ==
    IF \E supi \in DOMAIN SupiToGutiTable : SupiToGutiTable[supi] = guti
    THEN CHOOSE supi \in DOMAIN SupiToGutiTable : SupiToGutiTable[supi] = guti
    ELSE ""

\* The checks with the slice looked at before the presence of the requests.
ValidateSessionSliceFirst(spec, table) ==
    IF spec.nssai # "eMBB" THEN Cond("False", "NSSAINotPermitted")
    ELSE IF spec.requests = {} \/ spec.flows = {} \/ spec.rules = {}
    THEN Cond("False", "InvalidSession")
    ELSE IF spec.guti = "" THEN Cond("False", "GutiNotSpeficied")
    ELSE IF spec.guti \notin TableGutis(table) THEN Cond("False", "Unregistered")
    ELSE IF SupiOfGuti(spec.guti) = "" THEN Cond("False", "SupiNotFound")
    ELSE Cond("True", "Validated")

\* The checks of session-input, in order.
ValidateSession(spec, table) ==
    IF spec.requests = {} \/ spec.flows = {} \/ spec.rules = {}
    THEN Cond("False", "InvalidSession")
    ELSE IF spec.nssai # "eMBB" THEN Cond("False", "NSSAINotPermitted")
    ELSE IF spec.guti = "" THEN Cond("False", "GutiNotSpeficied")
    ELSE IF spec.guti \notin TableGutis(table) THEN Cond("False", "Unregistered")
    ELSE IF SupiOfGuti(spec.guti) = "" THEN Cond("False", "SupiNotFound")
    ELSE Cond("True", "Validated")

\* What session-input derives from the Session and the active-registration
\* table.
SessionInputPart(spec, table) ==
    LET v == ValidateSession(spec, table) IN
    [spec |-> spec,
     validated |-> v,
     supi |-> IF IsTrue(v) THEN SupiOfGuti(spec.guti) ELSE "",
     suci |-> IF IsTrue(v) THEN SuciOfGuti(table, spec.guti) ELSE ""]

NoNetwork == [ip |-> "", dns |-> ""]

\* A SessionContext: the part session-input writes, spec.idle, and the part
\* the SMF's session-context-handler writes.
NewSessionContext(spec, table) ==
    [input |-> SessionInputPart(spec, table),
     idle |-> FALSE,
     policy |-> Unknown, upf |-> Unknown,
     network |-> NoNetwork, flows |-> {}, rules |-> {}]

\* session-input that runs on the events of the Session only: a GUTI that
\* enters the table later is not looked up again.
SessionInputOnce(k) ==
    /\ k \in pendSession
    /\ pendSession' = pendSession \ {k}
    /\ sessionctx' = IF k \in DOMAIN session
                     THEN Put(sessionctx, k, NewSessionContext(session[k].spec, regtable))
                     ELSE Drop(sessionctx, k)
    /\ UNCHANGED <<regvars, session, upfconfig, ctxrelease, sesstable, cfgtable,
                   idlereq, idleq, snapshot, cycles, sops, now, procvars>>

\* session-input runs on the events of the Session (create: a fresh
\* SessionContext; delete: the SessionContext is removed) and again when the
\* active-registration table it looks the GUTI up in has changed.
SessionInput(k) ==
    /\ IF k \in pendSession
       THEN /\ pendSession' = pendSession \ {k}
            /\ sessionctx' = IF k \in DOMAIN session
                             THEN Put(sessionctx, k, NewSessionContext(session[k].spec, regtable))
                             ELSE Drop(sessionctx, k)
       ELSE /\ k \in DOMAIN session
            /\ k \in DOMAIN sessionctx
            /\ sessionctx[k].input # SessionInputPart(session[k].spec, regtable)
            /\ sessionctx' = [sessionctx EXCEPT ![k].input = SessionInputPart(session[k].spec, regtable)]
            /\ UNCHANGED pendSession
    /\ UNCHANGED <<regvars, session, upfconfig, ctxrelease, sesstable, cfgtable,
                   idlereq, idleq, snapshot, cycles, sops, now, procvars>>

-----------------------------------------------------------------------------
(* SMF session-context-handler, with the PCF's policy *)

Min(a, b) == IF a < b THEN a ELSE b

\* The policy filtering the flows without capping their bitrates.
ApplyPolicyUncapped(flows) == {g \in flows : g.fiveQI \in PolicyTable.fiveQI}

\* The flows the policy admits, with their bitrates capped.
ApplyPolicy(flows) ==
    {[f EXCEPT !.uplinkBwKbps = Min(f.uplinkBwKbps, PolicyTable.uplinkBwKbps),
               !.downlinkBwKbps = Min(f.downlinkBwKbps, PolicyTable.downlinkBwKbps)] :
       f \in {g \in flows : g.fiveQI \in PolicyTable.fiveQI}}

\* The network configuration with the address drawn at every run.
NetworkRedrawn(sc, ip) ==
    [ip |-> IF "IPConfiguration" \notin sc.input.spec.requests THEN "" ELSE ip,
     dns |-> IF "DNSServer" \in sc.input.spec.requests THEN DnsServers ELSE ""]

\* The network configuration with the address released while idle.
NetworkWhileActive(sc, ip) ==
    [ip |-> IF "IPConfiguration" \notin sc.input.spec.requests \/ sc.idle THEN ""
            ELSE IF sc.network.ip # "" THEN sc.network.ip ELSE ip,
     dns |-> IF "DNSServer" \in sc.input.spec.requests THEN DnsServers ELSE ""]

\* The network configuration of a session: the address is drawn when the
\* session has none yet and kept afterwards.
Network(sc, ip) ==
    [ip |-> IF "IPConfiguration" \notin sc.input.spec.requests THEN ""
            ELSE IF sc.network.ip # "" THEN sc.network.ip ELSE ip,
     dns |-> IF "DNSServer" \in sc.input.spec.requests THEN DnsServers ELSE ""]

\* The handler without the idle check.
UpfConfiguredAlways(sc) == Cond("True", "UPFConfigured")

\* The UPFConfigured condition: the whole of the idle/active toggle.
UpfConfigured(sc) ==
    IF sc.idle THEN Cond("False", "Idle") ELSE Cond("True", "UPFConfigured")

\* The handler applying the policy to a SessionContext that was not validated
\* as well.
HandlerResultUnvalidated(sc, ip) ==
    [policy |-> IF sc.input.spec.pduSessionType = "IPv4"
                THEN Cond("True", "PolicyApplied")
                ELSE Cond("False", "AddressFamilyNotSupported"),
     upf |-> UpfConfigured(sc),
     network |-> Network(sc, ip),
     flows |-> ApplyPolicy(sc.input.spec.flows),
     rules |-> sc.input.spec.rules]

\* The status the handler computes for a SessionContext; ip is the address
\* drawn from the pool.
HandlerResult(sc, ip) ==
    IF IsTrue(sc.input.validated)
    THEN [policy |-> IF sc.input.spec.pduSessionType = "IPv4"
                     THEN Cond("True", "PolicyApplied")
                     ELSE Cond("False", "AddressFamilyNotSupported"),
          upf |-> UpfConfigured(sc),
          network |-> Network(sc, ip),
          flows |-> ApplyPolicy(sc.input.spec.flows),
          rules |-> sc.input.spec.rules]
    ELSE [policy |-> Unknown, upf |-> Unknown, network |-> NoNetwork, flows |-> {}, rules |-> {}]

HandlerPart(sc) ==
    [policy |-> sc.policy, upf |-> sc.upf, network |-> sc.network,
     flows |-> sc.flows, rules |-> sc.rules]

SessionContextHandler(k, ip) ==
    /\ k \in DOMAIN sessionctx
    /\ LET res == HandlerResult(sessionctx[k], ip) IN
       /\ HandlerPart(sessionctx[k]) # res
       /\ sessionctx' = [sessionctx EXCEPT ![k].policy = res.policy, ![k].upf = res.upf,
                                           ![k].network = res.network,
                                           ![k].flows = res.flows, ![k].rules = res.rules]
    /\ UNCHANGED <<regvars, session, upfconfig, ctxrelease, sesstable, cfgtable,
                   idlereq, idleq, pendSession, snapshot, cycles, sops,
                   now, procvars>>

-----------------------------------------------------------------------------
(* SMF upf-notifier, active-session; UPF active-config *)

\* Ready without the UPF's condition.
SessionReadyPolicy(sc) == IsTrue(sc.input.validated) /\ IsTrue(sc.policy)

\* A SessionContext is Ready when its three conditions are True.
SessionReady(sc) == IsTrue(sc.input.validated) /\ IsTrue(sc.policy) /\ IsTrue(sc.upf)

\* The traffic spec the UPF is configured with.
TrafficSpec(sc) == [network |-> sc.network, flows |-> sc.flows, rules |-> sc.rules]

\* The gate of active-session put on upf-notifier.
UpfNotifierGateApplied(k) ==
    /\ k \in DOMAIN sessionctx
    /\ IsTrue(sessionctx[k].input.validated)
    /\ IsTrue(sessionctx[k].policy)

UpfNotifierGate(k) == k \in DOMAIN sessionctx /\ SessionReady(sessionctx[k])

\* upf-notifier keeps a UPF:Config of the same key for a SessionContext that
\* passes its gate, and removes the Config when the gate fails.
UpfNotifier(k) ==
    /\ \/ /\ UpfNotifierGate(k)
          /\ IF k \in DOMAIN upfconfig
             THEN upfconfig[k] # TrafficSpec(sessionctx[k]) ELSE TRUE
          /\ upfconfig' = Put(upfconfig, k, TrafficSpec(sessionctx[k]))
       \/ /\ ~UpfNotifierGate(k)
          /\ k \in DOMAIN upfconfig
          /\ upfconfig' = Drop(upfconfig, k)
    /\ UNCHANGED <<regvars, session, sessionctx, ctxrelease, sesstable, cfgtable,
                   pendSession, idlereq, idleq, snapshot, cycles, sops,
                   now, procvars>>

\* An entry that shows every session as active.
SessEntryActive(k, sc) ==
    [name |-> k, guti |-> sc.input.spec.guti, sessionId |-> sc.input.spec.sessionId,
     idle |-> FALSE]

SessEntry(k, sc) ==
    [name |-> k, guti |-> sc.input.spec.guti, sessionId |-> sc.input.spec.sessionId,
     idle |-> sc.idle]

ActiveSessionGate(sc) == IsTrue(sc.input.validated) /\ IsTrue(sc.policy)

\* The gather of active-session.
ActiveSessions(scs) ==
    {SessEntry(k, scs[k]) : k \in {x \in DOMAIN scs : ActiveSessionGate(scs[x])}}

ActiveSession ==
    /\ sesstable # ActiveSessions(sessionctx)
    /\ sesstable' = ActiveSessions(sessionctx)
    /\ UNCHANGED <<regvars, session, sessionctx, upfconfig, ctxrelease, cfgtable,
                   pendSession, idlereq, idleq, snapshot, cycles, sops,
                   now, procvars>>

\* An entry that leaves the traffic spec out.
ConfigEntryNameOnly(k, cfg) ==
    [name |-> k, spec |-> [network |-> NoNetwork, flows |-> {}, rules |-> {}]]

ConfigEntry(k, cfg) == [name |-> k, spec |-> cfg]

\* The gather of active-config.
ActiveConfigs(cfgs) == {ConfigEntry(k, cfgs[k]) : k \in DOMAIN cfgs}

ActiveConfig ==
    /\ cfgtable # ActiveConfigs(upfconfig)
    /\ cfgtable' = ActiveConfigs(upfconfig)
    /\ UNCHANGED <<regvars, session, sessionctx, upfconfig, ctxrelease, sesstable,
                   pendSession, idlereq, idleq, snapshot, cycles, sops,
                   now, procvars>>

-----------------------------------------------------------------------------
(* AMF session-output *)

NoSessionStatus ==
    [ready |-> NoCond, validated |-> NoCond, policyApplied |-> NoCond,
     upfConfigured |-> NoCond, guti |-> "", supi |-> "", suci |-> "",
     network |-> NoNetwork, flows |-> {}, rules |-> {}]

\* The status session-output writes into the Session.
SessionOutputStatus(sc) ==
    [ready |-> IF SessionReady(sc)
               THEN Cond("True", "SessionSuccessful")
               ELSE Cond("False", "SessionFailed"),
     validated |-> sc.input.validated,
     policyApplied |-> sc.policy,
     upfConfigured |-> sc.upf,
     guti |-> sc.input.spec.guti, supi |-> sc.input.supi, suci |-> sc.input.suci,
     network |-> sc.network, flows |-> sc.flows, rules |-> sc.rules]

SessionOutput(k) ==
    /\ k \in DOMAIN sessionctx
    /\ k \in DOMAIN session
    /\ session[k].status # SessionOutputStatus(sessionctx[k])
    /\ session' = [session EXCEPT ![k].status = SessionOutputStatus(sessionctx[k])]
    /\ UNCHANGED <<regvars, sessionctx, upfconfig, ctxrelease, sesstable, cfgtable,
                   pendSession, idlereq, idleq, snapshot, cycles, sops,
                   now, procvars>>

-----------------------------------------------------------------------------
(* AMF session-context-release-input, session-context-release-output *)

\* The checks with the session looked up before the registration.
ValidateReleaseSessionFirst(spec, regs, sesss) ==
    IF spec.guti = "" THEN Cond("False", "GutiNotSpecified")
    ELSE IF ~\E e \in sesss : e.guti = spec.guti /\ e.sessionId = spec.sessionId
         THEN Cond("False", "SessionNotFound")
    ELSE IF spec.guti \notin TableGutis(regs) THEN Cond("False", "GutiNotFound")
    ELSE Cond("True", "Ready")

\* The checks of session-context-release-input, in order.
ValidateRelease(spec, regs, sesss) ==
    IF spec.guti = "" THEN Cond("False", "GutiNotSpecified")
    ELSE IF spec.guti \notin TableGutis(regs) THEN Cond("False", "GutiNotFound")
    ELSE IF ~\E e \in sesss : e.guti = spec.guti /\ e.sessionId = spec.sessionId
         THEN Cond("False", "SessionNotFound")
    ELSE Cond("True", "Ready")

\* session-context-release-output without its predicate.
ReleaseOutputGateAny(crs, k) == k \in DOMAIN crs

\* The view of session-context-release-output: the ContextReleases that pass
\* its gate.
ReleaseOutputGate(crs, k) == k \in DOMAIN crs /\ IsTrue(crs[k].ready)

\* A write of ContextRelease k reaches session-context-release-output as a
\* change of its view when k passes the gate and did not, or the reverse.
ReleaseOutputEvent(crs, k) ==
    LET last == IF idleq[k] = <<>> THEN idlereq[k] ELSE idleq[k][Len(idleq[k])] IN
    IF ReleaseOutputGate(crs, k) = last THEN idleq
    ELSE [idleq EXCEPT ![k] = Append(idleq[k], ReleaseOutputGate(crs, k))]

SessionContextReleaseInput(k) ==
    /\ k \in DOMAIN ctxrelease
    /\ ctxrelease[k].ready # ValidateRelease(ctxrelease[k].spec, regtable, sesstable)
    /\ ctxrelease' = [ctxrelease EXCEPT ![k].ready =
                        ValidateRelease(ctxrelease[k].spec, regtable, sesstable)]
    /\ idleq' = ReleaseOutputEvent(ctxrelease', k)
    /\ UNCHANGED <<regvars, session, sessionctx, upfconfig, sesstable, cfgtable,
                   pendSession, idlereq, snapshot, cycles, sops, now, procvars>>

\* session-context-release-output emits the changes of its view in their
\* order: it patches spec.idle of the SessionContext of the ContextRelease's
\* key when the ContextRelease has come to pass the gate, and takes the patch
\* back when it no longer does.
SessionContextReleaseOutput(k) ==
    /\ idleq[k] # <<>>
    /\ idleq' = [idleq EXCEPT ![k] = Tail(idleq[k])]
    /\ idlereq' = [idlereq EXCEPT ![k] = Head(idleq[k])]
    /\ sessionctx' = IF k \in DOMAIN sessionctx
                     THEN [sessionctx EXCEPT ![k].idle = Head(idleq[k])]
                     ELSE sessionctx
    /\ UNCHANGED <<regvars, session, upfconfig, ctxrelease, sesstable, cfgtable,
                   pendSession, snapshot, cycles, sops, now, procvars>>

-----------------------------------------------------------------------------
(* The user (UE) *)

\* Create of a Registration; the previous event for the key has been taken
\* up by register-input (events of one key are delivered in order).
NotDeleted == [guti |-> "", cascaded |-> FALSE]

CreateRegistration(r, spec) ==
    /\ ops < MaxUserOps
    /\ r \notin DOMAIN registration
    /\ r \notin pendInput
    /\ registration' = Put(registration, r, [spec |-> spec, status |-> NoStatus])
    /\ pendInput' = pendInput \cup {r}
    /\ deleted' = [deleted EXCEPT ![r] = NotDeleted]
    /\ ops' = ops + 1
    /\ UNCHANGED <<regstate, mobileid, udmconfig, regtable, cfgreq, cfgq, pendAusf, pendUdm, sessvars, now, backoff, rebuild, deletedReq, procvars>>

DeleteRegistration(r) ==
    /\ ops < MaxUserOps
    /\ r \in DOMAIN registration
    /\ registration' = Drop(registration, r)
    /\ pendInput' = pendInput \cup {r}
    /\ deleted' = [deleted EXCEPT ![r] =
                     [guti |-> IF IsTrue(registration[r].status.ready)
                               THEN registration[r].status.guti ELSE "",
                      cascaded |-> FALSE]]
    /\ ops' = ops + 1
    /\ UNCHANGED <<regstate, mobileid, udmconfig, regtable, cfgreq, cfgq, pendAusf, pendUdm, sessvars, now, backoff, rebuild, deletedReq, procvars>>

\* The ContextRelease is created for the session k; when the session is
\* active and configured at the UPF, its state is recorded.
NoTraffic == [network |-> NoNetwork, flows |-> {}, rules |-> {}]
NoSnapshot == [phase |-> "none", context |-> NoTraffic, config |-> NoTraffic]

CreateSession(k, spec) ==
    /\ sops < MaxSessionOps
    /\ k \notin DOMAIN session
    /\ k \notin pendSession
    /\ session' = Put(session, k, [spec |-> spec, status |-> NoSessionStatus])
    /\ pendSession' = pendSession \cup {k}
    /\ snapshot' = [snapshot EXCEPT ![k] = NoSnapshot]
    /\ sops' = sops + 1
    /\ UNCHANGED <<regvars, sessionctx, upfconfig, ctxrelease, sesstable, cfgtable,
                   idlereq, idleq, cycles, now, procvars>>

\* A delete that takes the SessionContext away together with the Session.
DeleteSessionCascading(k) ==
    /\ sops < MaxSessionOps
    /\ k \in DOMAIN session
    /\ session' = Drop(session, k)
    /\ sessionctx' = Drop(sessionctx, k)
    /\ pendSession' = pendSession \cup {k}
    /\ snapshot' = [snapshot EXCEPT ![k] = NoSnapshot]
    /\ sops' = sops + 1
    /\ UNCHANGED <<regvars, upfconfig, ctxrelease, sesstable, cfgtable,
                   idlereq, idleq, cycles, now, procvars>>

DeleteSession(k) ==
    /\ sops < MaxSessionOps
    /\ k \in DOMAIN session
    /\ session' = Drop(session, k)
    /\ pendSession' = pendSession \cup {k}
    /\ snapshot' = [snapshot EXCEPT ![k] = NoSnapshot]
    /\ sops' = sops + 1
    /\ UNCHANGED <<regvars, sessionctx, upfconfig, ctxrelease, sesstable, cfgtable,
                   idlereq, idleq, cycles, now, procvars>>

\* The session k is active as its user sees it, and the UPF is configured
\* with its traffic spec.
Active(k) ==
    /\ k \in DOMAIN session
    /\ IsTrue(session[k].status.ready)
    /\ k \in DOMAIN sessionctx
    /\ k \in DOMAIN upfconfig
    /\ upfconfig[k] = TrafficSpec(sessionctx[k])

\* The session k is idle as its user sees it, and the UPF is not configured.
Idle(k) ==
    /\ k \in DOMAIN session
    /\ session[k].status.upfConfigured = Cond("False", "Idle")
    /\ k \notin DOMAIN upfconfig

CreateContextRelease(k, spec) ==
    /\ sops < MaxSessionOps
    /\ k \notin DOMAIN ctxrelease
    /\ ctxrelease' = Put(ctxrelease, k, [spec |-> spec, ready |-> NoCond])
    /\ snapshot' = [snapshot EXCEPT ![k] =
                      IF Active(k)
                      THEN [phase |-> "requested",
                            context |-> TrafficSpec(sessionctx[k]),
                            config |-> upfconfig[k]]
                      ELSE NoSnapshot]
    /\ sops' = sops + 1
    /\ UNCHANGED <<regvars, session, sessionctx, upfconfig, sesstable, cfgtable,
                   pendSession, idlereq, idleq, cycles, now, procvars>>

DeleteContextRelease(k) ==
    /\ sops < MaxSessionOps
    /\ k \in DOMAIN ctxrelease
    /\ ctxrelease' = Drop(ctxrelease, k)
    /\ snapshot' = [snapshot EXCEPT ![k].phase =
                      IF snapshot[k].phase = "requested" THEN "released" ELSE "none"]
    /\ cycles' = IF snapshot[k].phase = "requested" /\ Idle(k) THEN cycles + 1 ELSE cycles
    /\ sops' = sops + 1
    /\ idleq' = ReleaseOutputEvent(ctxrelease', k)
    /\ UNCHANGED <<regvars, session, sessionctx, upfconfig, sesstable, cfgtable,
                   pendSession, idlereq, now, procvars>>

-----------------------------------------------------------------------------
(* The system *)

Empty == [x \in {} |-> 0]

\* The fixture member of the AMF's table.
TestRegState ==
    [suci |-> "suci-test",
     validated |-> Cond("True", "Validated"),
     authenticated |-> Cond("True", "AuthenticationSuccess"),
     subscriptionInfo |-> Cond("True", "ConfigReady"),
     guti |-> GutiTest,
     config |-> ""]

\* The fixture member of the SMF's table, and the UPF:Config it generates.
TestSessionContext ==
    [input |-> [spec |-> SessSpec(GutiTest, "eMBB", SessionId, "IPv4", {}, {}, {}),
                validated |-> Cond("True", "Validated"),
                supi |-> "", suci |-> "suci-test"],
     idle |-> FALSE,
     policy |-> Cond("True", "PolicyApplied"),
     upf |-> Cond("True", "UPFConfigured"),
     network |-> NoNetwork, flows |-> {}, rules |-> {}]

-----------------------------------------------------------------------------
(* The process: main, dctrl.New and Dctrl.Start *)

\* main.go OpSpecs: the declarative operators; the UDM is loaded by hand.
OpSpecs == <<"amf", "ausf", "smf", "pcf", "upf">>
Operators == {OpSpecs[i] : i \in DOMAIN OpSpecs} \cup {"udm"}

\* What Start runs: a goroutine for the API server, one for the error
\* logger and one for each operator, and the shared store in Start itself.
Components == {"apiServer", "errorLogger", "cache"} \cup Operators

NilDctrl == [nil |-> TRUE, ops |-> {}, auth |-> FALSE]

\* The steps of New that can fail, in the order New takes them.
NewSteps ==
    <<"cache", "apiServerConfig", "checkCert", "publicKey", "apiServer">>
    \o OpSpecs \o <<"udm">>

\* The command lines and environments: the flags New looks at and the step
\* that fails in this environment, if any.
Options ==
    [httpMode : BOOLEAN, disableAuth : BOOLEAN,
     failAt : {NewSteps[i] : i \in DOMAIN NewSteps} \cup {"none"}]

\* The options of the test suites: HTTP, no authentication; nothing fails.
TestOptions == [httpMode |-> TRUE, disableAuth |-> TRUE, failAt |-> "none"]

\* New skips the TLS key/cert steps in HTTP mode and without authentication.
Skipped(opts, step) ==
    step \in {"checkCert", "publicKey"} /\ (opts.httpMode \/ opts.disableAuth)

\* New from its i-th step on, with the operators created so far, for one
\* that hands back what it has built when a step fails.
RECURSIVE NewFromPartial(_, _, _)
NewFromPartial(opts, i, created) ==
    IF i > Len(NewSteps)
    THEN [dctrl |-> [nil |-> FALSE, ops |-> created,
                     auth |-> ~(opts.httpMode \/ opts.disableAuth)],
          err |-> ""]
    ELSE IF Skipped(opts, NewSteps[i]) THEN NewFromPartial(opts, i + 1, created)
    ELSE IF opts.failAt = NewSteps[i]
         THEN [dctrl |-> [nil |-> FALSE, ops |-> created,
                          auth |-> ~(opts.httpMode \/ opts.disableAuth)],
               err |-> NewSteps[i]]
    ELSE NewFromPartial(opts, i + 1,
                        IF NewSteps[i] \in Operators
                        THEN created \cup {NewSteps[i]} ELSE created)

\* dctrl.go New from its i-th step on, with the operators created so far: a
\* failing step returns its error and no Dctrl.
RECURSIVE NewFrom(_, _, _)
NewFrom(opts, i, created) ==
    IF i > Len(NewSteps)
    THEN [dctrl |-> [nil |-> FALSE, ops |-> created,
                     auth |-> ~(opts.httpMode \/ opts.disableAuth)],
          err |-> ""]
    ELSE IF Skipped(opts, NewSteps[i]) THEN NewFrom(opts, i + 1, created)
    ELSE IF opts.failAt = NewSteps[i]
         THEN [dctrl |-> NilDctrl, err |-> NewSteps[i]]
    ELSE NewFrom(opts, i + 1,
                 IF NewSteps[i] \in Operators
                 THEN created \cup {NewSteps[i]} ELSE created)

New(opts) == NewFrom(opts, 1, {})

\* main.go: main calls New, leaves with exit code 1 when New fails, and
\* otherwise sets up the context the signals cancel.
MainNew ==
    /\ main.pc = "new"
    /\ LET res == New(options) IN
       /\ main' = [pc |-> IF res.err # "" THEN "exit1" ELSE "start", err |-> res.err]
       /\ dctrl' = res.dctrl
       /\ ctx' = IF res.err # "" THEN ctx ELSE "active"
    /\ UNCHANGED <<regvars, sessvars, now, options, running, errorChan, udmErrorChan>>

\* A signal cancels the context.
Cancel ==
    /\ ctx = "active"
    /\ ctx' = "cancelled"
    /\ UNCHANGED <<regvars, sessvars, now, options, main, dctrl, running, errorChan, udmErrorChan>>

\* dctrl.go Start up to its last line: the goroutines of the API server, of
\* the error logger and of every operator are started, and Start goes on into
\* the shared store's Start.
DctrlStart ==
    /\ main.pc = "start"
    /\ ~dctrl.nil
    /\ main' = [main EXCEPT !.pc = "blocked"]
    /\ running' = [c \in Components |->
                     IF c \in {"apiServer", "errorLogger", "cache"} \cup dctrl.ops
                     THEN "running" ELSE running[c]]
    /\ UNCHANGED <<regvars, sessvars, now, options, dctrl, ctx, errorChan, udmErrorChan>>

\* A context that is never done.
DoneNever == FALSE

\* The context the goroutines and the store wait on is done.
Done == ctx = "cancelled"

\* The API server and the operators run until their context is done.
RunnableStop(c) ==
    /\ c \in {"apiServer"} \cup Operators
    /\ running[c] = "running"
    /\ Done
    /\ running' = [running EXCEPT ![c] = "stopped"]
    /\ UNCHANGED <<regvars, sessvars, now, options, main, dctrl, ctx, errorChan, udmErrorChan>>

\* An operator reports an error of one of its controllers: a send on the
\* channel it was created with.  The declarative operators have the channel
\* New made, the UDM operator the one udm.New made.  The send waits while the
\* buffer is full; on the channel Start has closed it panics, and the panic
\* ends the process with everything that still ran.
ReportError(op) ==
    /\ op \in Operators
    /\ running[op] = "running"
    /\ ~errorChan.panicked
    /\ IF op = "udm"
       THEN /\ udmErrorChan < MaxErrors
            /\ udmErrorChan' = udmErrorChan + 1
            /\ UNCHANGED <<errorChan, running>>
       ELSE IF errorChan.closed
       THEN /\ errorChan' = [errorChan EXCEPT !.panicked = TRUE]
            /\ running' = [c \in Components |->
                             IF running[c] = "running" THEN "stopped" ELSE running[c]]
            /\ UNCHANGED udmErrorChan
       ELSE /\ errorChan.pending < MaxErrors
            /\ errorChan' = [errorChan EXCEPT !.pending = @ + 1]
            /\ UNCHANGED <<running, udmErrorChan>>
    /\ UNCHANGED <<regvars, sessvars, now, options, main, dctrl, ctx>>

\* The error logger's select: it logs an error of the channel, or returns
\* when the context is done.
ErrorLoggerLog ==
    /\ running["errorLogger"] = "running"
    /\ errorChan.pending > 0
    /\ errorChan' = [errorChan EXCEPT !.pending = @ - 1]
    /\ UNCHANGED <<regvars, sessvars, now, options, main, dctrl, ctx, running, udmErrorChan>>

ErrorLoggerReturn ==
    /\ running["errorLogger"] = "running"
    /\ Done
    /\ running' = [running EXCEPT !["errorLogger"] = "stopped"]
    /\ UNCHANGED <<regvars, sessvars, now, options, main, dctrl, ctx, errorChan, udmErrorChan>>

\* The shared store's Start returns when the context is done, Start returns
\* what it returned and closes the error channel on its way out.
StartReturn ==
    /\ main.pc = "blocked"
    /\ running["cache"] = "running"
    /\ Done
    /\ running' = [running EXCEPT !["cache"] = "stopped"]
    /\ main' = [pc |-> "returned", err |-> ""]
    /\ errorChan' = [errorChan EXCEPT !.closed = TRUE]
    /\ UNCHANGED <<regvars, sessvars, now, options, dctrl, ctx, udmErrorChan>>

\* The process before main calls New, in any environment.
InitProcess ==
    /\ now = 0
    /\ options \in Options
    /\ main = [pc |-> "new", err |-> ""]
    /\ dctrl = NilDctrl
    /\ ctx = "none"
    /\ running = [c \in Components |-> "idle"]
    /\ errorChan = [pending |-> 0, closed |-> FALSE, panicked |-> FALSE]
    /\ udmErrorChan = 0

\* The process serving: New has succeeded with the options of the test
\* suites and Start runs.
Serving ==
    /\ now = 0
    /\ options = TestOptions
    /\ main = [pc |-> "blocked", err |-> ""]
    /\ dctrl = New(TestOptions).dctrl
    /\ ctx = "active"
    /\ running = [c \in Components |-> "running"]
    /\ errorChan = [pending |-> 0, closed |-> FALSE, panicked |-> FALSE]
    /\ udmErrorChan = 0

InitRegistrations ==
    /\ registration = Empty
    /\ regstate = Put(Empty, TestReg, TestRegState)
    /\ mobileid = Empty
    /\ udmconfig = Empty
    /\ regtable = {RegEntry(TestReg, TestRegState)}
    /\ cfgreq = [r \in Regs |-> ""]
    /\ cfgq = [r \in Regs |-> <<>>]
    /\ pendInput = {}
    /\ pendAusf = {}
    /\ pendUdm = {}
    /\ backoff = {}
    /\ rebuild = NoRebuild
    /\ deletedReq = [g \in Gutis |-> "none"]
    /\ deleted = [r \in Regs |-> NotDeleted]
    /\ ops = 0

InitSessions ==
    /\ session = Empty
    /\ sessionctx = Put(Empty, TestSession, TestSessionContext)
    /\ upfconfig = Put(Empty, TestSession, TrafficSpec(TestSessionContext))
    /\ ctxrelease = Empty
    /\ sesstable = {SessEntry(TestSession, TestSessionContext)}
    /\ cfgtable = {ConfigEntry(TestSession, TrafficSpec(TestSessionContext))}
    /\ pendSession = {}
    /\ idlereq = [k \in Sessions |-> FALSE]
    /\ idleq = [k \in Sessions |-> <<>>]
    /\ snapshot = [k \in Sessions |-> NoSnapshot]
    /\ cycles = 0
    /\ sops = 0

Init == InitRegistrations /\ InitSessions /\ Serving

\* The UE registering and deregistering.
User ==
    \/ \E r \in Regs, spec \in RegFixtures : CreateRegistration(r, spec)
    \/ \E r \in Regs : DeleteRegistration(r)

\* The UE and the gNode-B working with sessions.
SessionUser ==
    \/ \E k \in Sessions, spec \in SessionFixtures : CreateSession(k, spec)
    \/ \E k \in Sessions : DeleteSession(k)
    \/ \E k \in Sessions, spec \in ReleaseFixtures : CreateContextRelease(k, spec)
    \/ \E k \in Sessions : DeleteContextRelease(k)

\* The registration loops of the AMF.
Amf ==
    \/ \E r \in Regs : RegisterInput(r)
    \/ \E r \in Regs : RegisterIdentityReq(r)
    \/ \E r \in Regs : RegisterIdentityHandler(r)
    \/ \E r \in Regs : RegisterConfigReq(r)
    \/ \E r \in Regs : RegisterConfigHandler(r)
    \/ \E r \in Regs : RegisterOutput(r)
    \/ ActiveRegistration

Ausf == \E r \in Regs : SupiReqHandler(r)

Udm == \E g \in Gutis, genOK \in BOOLEAN : Reconcile(g, genOK, TRUE)

\* The session and context-release loops of the AMF.
AmfSession ==
    \/ \E k \in Sessions : SessionInput(k)
    \/ \E k \in Sessions : SessionOutput(k)
    \/ \E k \in Sessions : SessionContextReleaseInput(k)
    \/ \E k \in Sessions : SessionContextReleaseOutput(k)

Smf ==
    \/ \E k \in Sessions, ip \in IpPool : SessionContextHandler(k, ip)
    \/ \E k \in Sessions : UpfNotifier(k)
    \/ ActiveSession

Upf == ActiveConfig

Loops == Amf \/ Ausf \/ Udm \/ AmfSession \/ Smf \/ Upf

Next == User \/ SessionUser \/ Loops

Spec == Init /\ [][Next]_vars

\* The registration workflow: no session is requested.
NextRegistration == User \/ Amf \/ Ausf \/ Udm

SpecRegistration == Init /\ [][NextRegistration]_vars

\* One name, registered, deleted and registered again with any request.
OneNameUser ==
    \/ \E spec \in RegFixtures : CreateRegistration("user-1", spec)
    \/ DeleteRegistration("user-1")

NextOneName == OneNameUser \/ Amf \/ Ausf \/ Udm

SpecOneName == Init /\ [][NextOneName]_vars

\* Two names that register the same subscriber, so that they share the GUTI
\* and with it the name of the UDM:Config.
SharedSuciUser ==
    \/ \E r \in Regs : CreateRegistration(r, LegitReg(SuciC0))
    \/ \E r \in Regs : DeleteRegistration(r)

NextSharedSuci == SharedSuciUser \/ Amf \/ Ausf \/ Udm

SpecSharedSuci == Init /\ [][NextSharedSuci]_vars

\* The session workflow of one subscriber, who registers once.
Subscriber == CreateRegistration("user-1", LegitReg(SuciC0))

NextSession == Subscriber \/ SessionUser \/ Loops

SpecSession == Init /\ [][NextSession]_vars

\* The connection state of one valid session: the subscriber registers once,
\* the UE asks for the template session only, the gNode-B sends any release.
IdleUser ==
    \/ \E k \in Sessions : CreateSession(k, LegitSession)
    \/ \E k \in Sessions : DeleteSession(k)
    \/ \E k \in Sessions, spec \in ReleaseFixtures : CreateContextRelease(k, spec)
    \/ \E k \in Sessions : DeleteContextRelease(k)

NextIdle == Subscriber \/ IdleUser \/ Loops

SpecIdle == Init /\ [][NextIdle]_vars

\* No control loop has work left.
Quiescent == ~ENABLED Loops

-----------------------------------------------------------------------------
(* Fairness: every control loop is a goroutine of its own that keeps taking
   the events queued for it, so a loop that stays enabled eventually runs. *)

FairRegistration ==
    /\ \A r \in Regs :
         /\ WF_vars(RegisterInput(r))
         /\ WF_vars(RegisterIdentityReq(r))
         /\ WF_vars(RegisterIdentityHandler(r))
         /\ WF_vars(RegisterConfigReq(r))
         /\ WF_vars(RegisterConfigHandler(r))
         /\ WF_vars(RegisterOutput(r))
         /\ WF_vars(SupiReqHandler(r))
    /\ WF_vars(ActiveRegistration)
    /\ \A g \in Gutis : WF_vars(\E genOK \in BOOLEAN : Reconcile(g, genOK, TRUE))

FairSpecOneName == SpecOneName /\ FairRegistration

FairSpecSharedSuci == SpecSharedSuci /\ FairRegistration

\* Every loop is a controller with a goroutine and a work queue of its own,
\* so pending work is processed.  The user stops after finitely many
\* operations and no loop re-triggers itself for ever, so the fairness of the
\* loops taken together gives each loop its turn.
FairSpecIdle == SpecIdle /\ WF_vars(Loops)

-----------------------------------------------------------------------------
(* Registration: condition aggregation and the table *)

AllTrue(st) ==
    /\ st.validated.status = "True"
    /\ st.authenticated.status = "True"
    /\ st.subscriptionInfoRetrieved.status = "True"

\* C1: at a quiescent point every Registration whose status has been
\* projected shows Ready=True/RegistrationSuccessful exactly when its
\* Validated, Authenticated and SubscriptionInfoRetrieved conditions are all
\* True, and Ready=False/RegistrationFailed in every other projected state;
\* a RegState whose outcome is decided has been projected.
C1_ReadyIffAllTrue ==
    Quiescent =>
      \A r \in DOMAIN registration :
        LET st == registration[r].status IN
        /\ st # NoStatus =>
             IF AllTrue(st)
             THEN st.ready = Cond("True", "RegistrationSuccessful")
             ELSE st.ready = Cond("False", "RegistrationFailed")
        /\ (\/ regstate[r].validated.status = "False"
            \/ regstate[r].authenticated.status = "False"
            \/ regstate[r].subscriptionInfo.status \in {"True", "False"}) =>
             /\ st.validated = regstate[r].validated
             /\ st.authenticated = regstate[r].authenticated
             /\ st.subscriptionInfoRetrieved = regstate[r].subscriptionInfo
             /\ st.ready.status \in {"True", "False"}

\* A quiescent point with a successful Registration and one that failed at
\* the last step.
C1_Witness ==
    /\ Quiescent
    /\ \E r \in DOMAIN registration :
         registration[r].status.ready = Cond("True", "RegistrationSuccessful")
    /\ \E r \in DOMAIN registration :
         /\ registration[r].status.ready = Cond("False", "RegistrationFailed")
         /\ registration[r].status.subscriptionInfoRetrieved = Cond("False", "ConfigNotFound")

IsReadyRegState(rs) ==
    /\ rs.validated.status = "True"
    /\ rs.authenticated.status = "True"
    /\ rs.subscriptionInfo.status = "True"

\* C4: at a quiescent point ActiveRegistrationTable holds exactly one entry
\* {name, guti, suci} for every Ready RegState and no other entry, so it has
\* as many members as there are Ready RegStates.
C4_TableConsistent ==
    Quiescent =>
      /\ \A r \in DOMAIN regstate :
           IsReadyRegState(regstate[r]) =>
             /\ [name |-> r, guti |-> regstate[r].guti, suci |-> regstate[r].suci] \in regtable
             /\ Cardinality({e \in regtable : e.name = r}) = 1
      /\ \A e \in regtable :
           /\ e.name \in DOMAIN regstate
           /\ IsReadyRegState(regstate[e.name])
      /\ Cardinality(regtable) =
           Cardinality({r \in DOMAIN regstate : IsReadyRegState(regstate[r])})

\* A quiescent point after a create and a delete, with a user's Ready
\* RegState in the table and a RegState that is not Ready outside it.
C4_Witness ==
    /\ Quiescent
    /\ \E r \in Regs : deleted[r].guti # ""
    /\ \E r \in Regs : r \in DOMAIN regstate /\ IsReadyRegState(regstate[r])
                       /\ \E e \in regtable : e.name = r
    /\ Cardinality(regtable) = 2

-----------------------------------------------------------------------------
(* register-input as a function of the Registration's spec *)

\* The specs a Registration is drawn from: every combination of passing and
\* failing checks.
RegSpecs ==
    {RegSpec(rt, n1, idt, idv, ea, ia) :
       rt \in {"initial", "dummy"}, n1 \in BOOLEAN,
       idt \in {"SUCI", "GUTI", ""}, idv \in {SuciC0, "dummy", ""},
       ea \in SUBSET {"5G-EA1", "5G-EA2"}, ia \in SUBSET {"5G-IA1", "5G-IA2"}}

\* A Registration of any of these specs has just been created.
InitRegisterInput ==
    /\ registration \in {Put(Empty, r, [spec |-> spec, status |-> NoStatus]) :
                           r \in Regs, spec \in RegSpecs}
    /\ pendInput = DOMAIN registration
    /\ regstate = Put(Empty, TestReg, TestRegState)
    /\ mobileid = Empty
    /\ udmconfig = Empty
    /\ regtable = {RegEntry(TestReg, TestRegState)}
    /\ cfgreq = [r \in Regs |-> ""]
    /\ cfgq = [r \in Regs |-> <<>>]
    /\ pendAusf = {}
    /\ pendUdm = {}
    /\ backoff = {}
    /\ rebuild = NoRebuild
    /\ deletedReq = [g \in Gutis |-> "none"]
    /\ deleted = [r \in Regs |-> NotDeleted]
    /\ ops = 1
    /\ InitSessions
    /\ Serving

\* register-input takes the Registration up.
NextRegisterInput == \E r \in Regs : RegisterInput(r)

SpecRegisterInput == InitRegisterInput /\ [][NextRegisterInput]_vars

\* C8: register-input checks the registration type, n1Mode, the mobile
\* identity and the security capabilities in this order; Validated=False
\* carries the reason of the first failing check even when later checks fail
\* too, and Validated=True results exactly when all four pass.
C8_FirstFailingCheck ==
    \A r \in DOMAIN registration :
      r \notin pendInput =>
        LET sp == registration[r].spec
            v == regstate[r].validated
            typeOK == sp.registrationType = "initial"
            modeOK == sp.n1Mode
            suciOK == sp.idType = "SUCI" /\ sp.idValue # ""
            algOK == "5G-EA2" \in sp.encryptionAlgorithms /\ "5G-IA2" \in sp.integrityAlgorithms
        IN  /\ ~typeOK => v = Cond("False", "InvalidType")
            /\ typeOK /\ ~modeOK => v = Cond("False", "StandardNotSupported")
            /\ typeOK /\ modeOK /\ ~suciOK => v = Cond("False", "SuciNotFound")
            /\ typeOK /\ modeOK /\ suciOK /\ ~algOK => v = Cond("False", "EncyptionNotSupported")
            /\ v.status = "True" <=> typeOK /\ modeOK /\ suciOK /\ algOK
            /\ v.status = "True" => v.reason = "Validated"

\* register-input has rejected a Registration failing all four checks for
\* its type.
C8_Witness ==
    \E r \in DOMAIN registration :
      /\ r \notin pendInput
      /\ registration[r].spec.registrationType # "initial"
      /\ ~registration[r].spec.n1Mode
      /\ registration[r].spec.idValue = ""
      /\ "5G-EA2" \notin registration[r].spec.encryptionAlgorithms
      /\ regstate[r].validated = Cond("False", "InvalidType")

-----------------------------------------------------------------------------
(* Registration: rejected requests *)

FailsValidation(spec) ==
    \/ spec.registrationType # "initial"
    \/ ~spec.n1Mode
    \/ spec.idType # "SUCI" \/ spec.idValue = ""
    \/ "5G-EA2" \notin spec.encryptionAlgorithms
    \/ "5G-IA2" \notin spec.integrityAlgorithms

ValidationReasons ==
    {"InvalidType", "StandardNotSupported", "SuciNotFound", "EncyptionNotSupported"}

Rejected(r) ==
    /\ r \in DOMAIN registration
    /\ registration[r].status.ready = Cond("False", "RegistrationFailed")
    /\ registration[r].status.validated.status = "False"
    /\ registration[r].status.validated.reason \in ValidationReasons
    /\ registration[r].status.validated = Validate(registration[r].spec)
    /\ registration[r].status.authenticated = Unknown

UnknownSuci(r) ==
    /\ r \in DOMAIN registration
    /\ ~FailsValidation(registration[r].spec)
    /\ registration[r].spec.idValue \notin DOMAIN SuciToSupiTable

Unauthenticated(r) ==
    /\ r \in DOMAIN registration
    /\ registration[r].status.validated = Cond("True", "Validated")
    /\ registration[r].status.authenticated = Cond("False", "SupiNotFound")
    /\ registration[r].status.ready = Cond("False", "RegistrationFailed")

\* The part of C10 that is about the outcome: a Registration that passes
\* validation with a SUCI the AUSF does not know eventually shows
\* Validated=True, Authenticated=False/SupiNotFound and Ready=False (unless it
\* is deleted first).
C10_UnauthenticatedEventually ==
    \A r \in Regs : UnknownSuci(r) ~> (r \notin DOMAIN registration \/ Unauthenticated(r))

Entries(table, r) == {e \in table : e.name = r}

\* The part of C10 that is about what never happens: such a Registration is
\* never Ready=True, and no entry of its name is added to
\* ActiveRegistrationTable while it exists.
C10_NeverReady ==
    /\ [](\A r \in Regs : UnknownSuci(r) => registration[r].status.ready.status # "True")
    /\ [][\A r \in Regs : UnknownSuci(r)' => Entries(regtable', r) \subseteq Entries(regtable, r)]_vars

\* C10: a Registration that passes validation but whose SUCI is not in the
\* AUSF table eventually shows Validated=True, Authenticated=False/SupiNotFound
\* and Ready=False, and it never becomes Ready=True nor enters
\* ActiveRegistrationTable.
C10_UnknownSuciRejected == C10_UnauthenticatedEventually /\ C10_NeverReady

-----------------------------------------------------------------------------
(* Registration: the deletion cascade *)

\* The Registration r was Ready with GUTI g when it was deleted, and has not
\* been created again.
DeletedReady(r, g) == r \notin DOMAIN registration /\ g # "" /\ deleted[r].guti = g

\* Another Registration that resolves to the GUTI g is live.
Shared(r, g) ==
    \E o \in DOMAIN registration :
      /\ o # r
      /\ registration[o].spec.idValue \in DOMAIN SuciToSupiTable
      /\ GutiOf(SuciToSupiTable[registration[o].spec.idValue]) = g

CascadeDoneUnlessShared(r, g) ==
    /\ r \notin DOMAIN regstate
    /\ r \notin DOMAIN mobileid
    /\ g \notin DOMAIN udmconfig \/ Shared(r, g)
    /\ ~\E e \in regtable : e.name = r

-----------------------------------------------------------------------------
(* Sessions: condition aggregation and the UPF's configuration *)

\* C2: at a quiescent point every Session shows Ready=True/SessionSuccessful
\* exactly when the Validated, PolicyApplied and UPFConfigured conditions of
\* its SessionContext are all True, and Ready=False/SessionFailed otherwise.
C2_SessionReadyIffAllTrue ==
    Quiescent =>
      \A k \in DOMAIN session :
        /\ k \in DOMAIN sessionctx
        /\ LET sc == sessionctx[k]
               st == session[k].status
           IN  /\ st.validated = sc.input.validated
               /\ st.policyApplied = sc.policy
               /\ st.upfConfigured = sc.upf
               /\ IF /\ sc.input.validated.status = "True"
                     /\ sc.policy.status = "True"
                     /\ sc.upf.status = "True"
                  THEN st.ready = Cond("True", "SessionSuccessful")
                  ELSE st.ready = Cond("False", "SessionFailed")

\* A quiescent point with an idle session: validated, policy applied, not
\* Ready.
C2_Witness ==
    /\ Quiescent
    /\ \E k \in DOMAIN session :
         /\ session[k].status.ready = Cond("False", "SessionFailed")
         /\ session[k].status.policyApplied = Cond("True", "PolicyApplied")
         /\ session[k].status.upfConfigured = Cond("False", "Idle")
    /\ cycles >= 1

\* C5: at a quiescent point a UPF:Config of key k exists exactly when the
\* SessionContext k exists, is validated and policy-applied, and is not idle.
C5_ConfigIffActive ==
    Quiescent =>
      \A k \in Sessions \cup {TestSession} :
        k \in DOMAIN upfconfig <=>
          /\ k \in DOMAIN sessionctx
          /\ sessionctx[k].input.validated.status = "True"
          /\ sessionctx[k].policy.status = "True"
          /\ ~sessionctx[k].idle

\* A quiescent point where the Config of a session that had one is gone
\* because the session is idle.
C5_Witness ==
    /\ Quiescent
    /\ \E k \in Sessions :
         /\ snapshot[k].phase = "requested"
         /\ k \in DOMAIN sessionctx
         /\ sessionctx[k].idle
         /\ k \notin DOMAIN upfconfig

-----------------------------------------------------------------------------
(* The idle/active toggle *)

\* A valid ContextRelease exists for the session k, which was active when
\* the ContextRelease was created.
IdleRequested(k) ==
    /\ k \in DOMAIN ctxrelease
    /\ k \in DOMAIN session
    /\ snapshot[k].phase = "requested"
    /\ ctxrelease[k].spec = ReleaseSpec(session[k].spec.guti, session[k].spec.sessionId)

\* That ContextRelease has been deleted.
IdleReleased(k) ==
    /\ k \notin DOMAIN ctxrelease
    /\ k \in DOMAIN session
    /\ snapshot[k].phase = "released"

Restored(k) ==
    /\ k \in DOMAIN session
    /\ k \in DOMAIN upfconfig
    /\ session[k].status.upfConfigured = Cond("True", "UPFConfigured")

\* C6: the creation of a valid ContextRelease for an active session is
\* eventually followed by the UPF:Config being deleted and the Session
\* showing UPFConfigured=False/Idle, and its deletion by the Config existing
\* again and UPFConfigured=True (unless the next user operation on the
\* session or the ContextRelease comes first), in every cycle.
C6_IdleToggle ==
    \A k \in Sessions :
      /\ IdleRequested(k) ~> (Idle(k) \/ ~IdleRequested(k))
      /\ IdleReleased(k) ~> (Restored(k) \/ ~IdleReleased(k))

\* The session is active again after its second idle period.
C6_Witness ==
    \E k \in Sessions : cycles >= 2 /\ IdleReleased(k) /\ Restored(k)

-----------------------------------------------------------------------------
(* session-input as a function of the Session's spec and the table *)

\* The RegState of a subscriber whose registration has succeeded.
ReadyRegState(suci) ==
    [NewRegState(LegitReg(suci)) EXCEPT
       !.authenticated = Cond("True", "AuthenticationSuccess"),
       !.guti = GutiOf(SuciToSupiTable[suci]),
       !.subscriptionInfo = Cond("True", "ConfigReady"),
       !.config = KubeConfig(GutiOf(SuciToSupiTable[suci]), 0)]

\* The registration of user-1 has succeeded and every loop has settled.
Registered ==
    /\ registration = Put(Empty, "user-1",
                          [spec |-> LegitReg(SuciC0),
                           status |-> RegisterOutputStatus(ReadyRegState(SuciC0))])
    /\ regstate = Put(Put(Empty, TestReg, TestRegState), "user-1", ReadyRegState(SuciC0))
    /\ mobileid = Put(Empty, "user-1", SupiLookup(NewMobileIdentity(SuciC0)))
    /\ udmconfig = Put(Empty, GutiE0,
                       SetStatus(NewConfig, "True", "Ready", KubeConfig(GutiE0, 0), 0))
    /\ regtable = {RegEntry(TestReg, TestRegState), RegEntry("user-1", ReadyRegState(SuciC0))}
    /\ cfgreq = [r \in Regs |-> IF r = "user-1" THEN GutiE0 ELSE ""]
    /\ cfgq = [r \in Regs |-> <<>>]
    /\ pendInput = {}
    /\ pendAusf = {}
    /\ pendUdm = {}
    /\ backoff = {}
    /\ rebuild = NoRebuild
    /\ deletedReq = [g \in Gutis |-> "none"]
    /\ deleted = [r \in Regs |-> NotDeleted]
    /\ ops = 1

\* The specs a Session is drawn from: every combination of passing and
\* failing checks.
SessSpecs ==
    {SessSpec(guti, nssai, SessionId, "IPv4", requests, flows, rules) :
       guti \in {"", "dummy", GutiTest, GutiE0, GutiE1}, nssai \in {"eMBB", "dummy"},
       requests \in {{}, TemplateRequests}, flows \in {{}, TemplateFlows},
       rules \in {{}, TemplateRules}}

\* A Session of any of these specs has just been created, before or after
\* the registration of user-1.
InitSessionInput ==
    /\ InitRegistrations \/ Registered
    /\ session \in {Put(Empty, k, [spec |-> spec, status |-> NoSessionStatus]) :
                      k \in Sessions, spec \in SessSpecs}
    /\ pendSession = DOMAIN session
    /\ sessionctx = Put(Empty, TestSession, TestSessionContext)
    /\ upfconfig = Put(Empty, TestSession, TrafficSpec(TestSessionContext))
    /\ ctxrelease = Empty
    /\ sesstable = {SessEntry(TestSession, TestSessionContext)}
    /\ cfgtable = {ConfigEntry(TestSession, TrafficSpec(TestSessionContext))}
    /\ idlereq = [k \in Sessions |-> FALSE]
    /\ idleq = [k \in Sessions |-> <<>>]
    /\ snapshot = [k \in Sessions |-> NoSnapshot]
    /\ cycles = 0
    /\ sops = 1
    /\ Serving

\* session-input takes the Session up.
NextSessionInput == \E k \in Sessions : SessionInput(k)

SpecSessionInput == InitSessionInput /\ [][NextSessionInput]_vars

\* C11: session-input checks that network configuration requests, QoS flows
\* and QoS rules are present, that the slice is eMBB, that the GUTI is
\* present, that it is in ActiveRegistrationTable and that its SUPI resolves,
\* in this order; Validated=False carries the reason of the first failing
\* check even when later checks fail too, and Validated=True results exactly
\* when all pass.
C11_FirstFailingSessionCheck ==
    \A k \in DOMAIN session :
      k \notin pendSession =>
        LET sp == session[k].spec
            v == sessionctx[k].input.validated
            presentOK == sp.requests # {} /\ sp.flows # {} /\ sp.rules # {}
            sliceOK == sp.nssai = "eMBB"
            gutiOK == sp.guti # ""
            regOK == \E e \in regtable : e.guti = sp.guti
            supiOK == \E supi \in DOMAIN SupiToGutiTable : SupiToGutiTable[supi] = sp.guti
        IN  /\ ~presentOK => v = Cond("False", "InvalidSession")
            /\ presentOK /\ ~sliceOK => v = Cond("False", "NSSAINotPermitted")
            /\ presentOK /\ sliceOK /\ ~gutiOK => v = Cond("False", "GutiNotSpeficied")
            /\ presentOK /\ sliceOK /\ gutiOK /\ ~regOK => v = Cond("False", "Unregistered")
            /\ presentOK /\ sliceOK /\ gutiOK /\ regOK /\ ~supiOK
                 => v = Cond("False", "SupiNotFound")
            /\ v.status = "True" <=> presentOK /\ sliceOK /\ gutiOK /\ regOK /\ supiOK
            /\ v.status = "True" => v.reason = "Validated"

\* session-input has rejected a Session that fails the first three checks
\* for its missing flows.
C11_Witness ==
    \E k \in DOMAIN session :
      /\ k \notin pendSession
      /\ session[k].spec.flows = {}
      /\ session[k].spec.nssai # "eMBB"
      /\ session[k].spec.guti = ""
      /\ sessionctx[k].input.validated = Cond("False", "InvalidSession")

-----------------------------------------------------------------------------
(* Sessions: rejected requests *)

\* The Session k asks for something session-input rejects whatever the
\* registrations are.
InvalidSession(k) ==
    /\ k \in DOMAIN session
    /\ ~IsTrue(ValidateSession(session[k].spec,
                               {RegEntry(TestReg, TestRegState)}
                                 \cup {RegEntry(r, ReadyRegState(suci)) :
                                         r \in Regs, suci \in DOMAIN SuciToSupiTable}))

\* The Session k shows that it was rejected.
SessionRejected(k) ==
    /\ session[k].status.ready = Cond("False", "SessionFailed")
    /\ session[k].status.validated.status = "False"
    /\ session[k].status.policyApplied = Unknown
    /\ session[k].status.upfConfigured = Unknown

\* Sessions only: the subscriber registers once, the UE asks for any of the
\* test sessions and deletes them; no ContextRelease is sent.
SessionOnlyUser ==
    \/ \E k \in Sessions, spec \in SessionFixtures : CreateSession(k, spec)
    \/ \E k \in Sessions : DeleteSession(k)

\* The loops that have work when no ContextRelease is sent.
EstablishmentLoops ==
    \/ Amf \/ Ausf \/ Udm
    \/ \E k \in Sessions : SessionInput(k)
    \/ \E k \in Sessions : SessionOutput(k)
    \/ Smf \/ Upf

NextSessionOnly == Subscriber \/ SessionOnlyUser \/ EstablishmentLoops

SpecSessionOnly == Init /\ [][NextSessionOnly]_vars

FairSpecSessionOnly == SpecSessionOnly /\ WF_vars(EstablishmentLoops)

\* The outcome of a rejected Session: it comes to show Ready=False with
\* reason SessionFailed, Validated=False, and PolicyApplied and UPFConfigured
\* Unknown (unless it is deleted first).
RejectedSessionEventually ==
    \A k \in Sessions : InvalidSession(k) ~> (~InvalidSession(k) \/ SessionRejected(k))

\* PolicyApplied and UPFConfigured of a rejected Session are never anything
\* but Unknown.
StayUnknown ==
    \A k \in Sessions :
      InvalidSession(k) =>
        /\ session[k].status.policyApplied \in {NoCond, Unknown}
        /\ session[k].status.upfConfigured \in {NoCond, Unknown}

\* C12 as stated: a Session whose validation fails eventually shows
\* Ready=False/SessionFailed while PolicyApplied and UPFConfigured remain
\* Unknown, and no UPF:Config of its name exists in any reachable state.
C12_NoConfigEver ==
    /\ RejectedSessionEventually
    /\ []StayUnknown
    /\ [](\A k \in Sessions : InvalidSession(k) => k \notin DOMAIN upfconfig)

\* C12, amended: a Session whose validation fails eventually shows
\* Ready=False/SessionFailed while PolicyApplied and UPFConfigured remain
\* Unknown; no UPF:Config of its name is created while it exists, and none
\* exists once the loops have settled (the Config of an earlier Session of
\* the same name is removed).
C12_NoConfigCreated ==
    /\ RejectedSessionEventually
    /\ []StayUnknown
    /\ [](\A k \in Sessions : Quiescent /\ InvalidSession(k) => k \notin DOMAIN upfconfig)
    /\ [][\A k \in Sessions :
            InvalidSession(k) /\ k \in DOMAIN upfconfig' => k \in DOMAIN upfconfig]_vars

\* A rejected Session that took the name of an accepted one, settled: the
\* Config of the accepted one is gone.
C12_Witness ==
    /\ Quiescent
    /\ sops >= 3
    /\ \E k \in Sessions :
         /\ InvalidSession(k)
         /\ SessionRejected(k)
         /\ k \notin DOMAIN upfconfig
         /\ k \in DOMAIN sessionctx

-----------------------------------------------------------------------------
(* session-context-release-input as a function of the ContextRelease's spec
   and the two tables *)

\* The SessionContext of the template session of user-1, once the SMF has
\* handled it.
ActiveSessionContext ==
    LET sc == NewSessionContext(LegitSession,
                {RegEntry(TestReg, TestRegState), RegEntry("user-1", ReadyRegState(SuciC0))})
        res == HandlerResult(sc, "10.45.0.100")
    IN  [sc EXCEPT !.policy = res.policy, !.upf = res.upf, !.network = res.network,
                   !.flows = res.flows, !.rules = res.rules]

\* No session has been asked for.
NoSessions == InitSessions

\* The template session of user-1 is active and every loop has settled.
Established ==
    /\ session = Put(Empty, "user-1",
                     [spec |-> LegitSession,
                      status |-> SessionOutputStatus(ActiveSessionContext)])
    /\ sessionctx = Put(Put(Empty, TestSession, TestSessionContext),
                        "user-1", ActiveSessionContext)
    /\ upfconfig = Put(Put(Empty, TestSession, TrafficSpec(TestSessionContext)),
                       "user-1", TrafficSpec(ActiveSessionContext))
    /\ ctxrelease = Empty
    /\ sesstable = ActiveSessions(sessionctx)
    /\ cfgtable = ActiveConfigs(upfconfig)
    /\ pendSession = {}
    /\ idlereq = [k \in Sessions |-> FALSE]
    /\ idleq = [k \in Sessions |-> <<>>]
    /\ snapshot = [k \in Sessions |-> NoSnapshot]
    /\ cycles = 0
    /\ sops = 1

\* The specs a ContextRelease is drawn from: every combination of passing
\* and failing checks.
ReleaseSpecs ==
    {ReleaseSpec(guti, id) : guti \in {"", "dummy", GutiTest, GutiE0, GutiE1},
                             id \in {SessionId, OtherSessionId}}

\* Nobody is registered, or user-1 is, without or with its session.
InitReleaseInput ==
    /\ \/ InitRegistrations /\ NoSessions
       \/ Registered /\ NoSessions
       \/ Registered /\ Established
    /\ Serving

\* The gNode-B sends and withdraws ContextReleases, and
\* session-context-release-input takes them up.
NextReleaseInput ==
    \/ \E k \in Sessions, spec \in ReleaseSpecs : CreateContextRelease(k, spec)
    \/ \E k \in Sessions : DeleteContextRelease(k)
    \/ \E k \in Sessions : SessionContextReleaseInput(k)

SpecReleaseInput == InitReleaseInput /\ [][NextReleaseInput]_vars

\* C13: session-context-release-input sets Ready=False/GutiNotSpecified when
\* spec.guti is missing, else GutiNotFound when the GUTI is not in
\* ActiveRegistrationTable, else SessionNotFound when (guti, sessionId) is
\* not in ActiveSessionTable, and Ready=True/Ready only when all three checks
\* pass.
C13_ReleaseChecks ==
    \A k \in DOMAIN ctxrelease :
      ~ENABLED SessionContextReleaseInput(k) =>
        LET sp == ctxrelease[k].spec
            r == ctxrelease[k].ready
            gutiOK == sp.guti # ""
            regOK == \E e \in regtable : e.guti = sp.guti
            sessOK == \E e \in sesstable : e.guti = sp.guti /\ e.sessionId = sp.sessionId
        IN  /\ ~gutiOK => r = Cond("False", "GutiNotSpecified")
            /\ gutiOK /\ ~regOK => r = Cond("False", "GutiNotFound")
            /\ gutiOK /\ regOK /\ ~sessOK => r = Cond("False", "SessionNotFound")
            /\ gutiOK /\ regOK /\ sessOK => r = Cond("True", "Ready")
            /\ r.status = "True" <=> gutiOK /\ regOK /\ sessOK

\* A ContextRelease for a registered subscriber and a session id it does not
\* have has been rejected, and one for its session accepted.
C13_Witness ==
    \E k \in DOMAIN ctxrelease :
      /\ ctxrelease[k].spec = ReleaseSpec(GutiE0, OtherSessionId)
      /\ ctxrelease[k].ready = Cond("False", "SessionNotFound")
      /\ \E e \in sesstable : e.guti = GutiE0

-----------------------------------------------------------------------------
(* AUSF: the answer to a MobileIdentity request *)

\* The AUSF has answered the request r.
Answered(r) == r \in DOMAIN mobileid /\ r \notin pendAusf

\* C14: supi-req-handler answers every MobileIdentity request with
\* Ready=True/Ready and the SUPI of the table when spec.suci is in the
\* SUCI-to-SUPI table, and with Ready=False/MobileIdentityNotFound otherwise;
\* the request is labelled state=Ready in both outcomes, and requests with
\* the same SUCI get the same answer.
C14_SupiLookup ==
    /\ \A r \in DOMAIN mobileid :
         Answered(r) =>
           /\ mobileid[r].label = "Ready"
           /\ IF \E suci \in DOMAIN SuciToSupiTable : suci = mobileid[r].suci
              THEN /\ mobileid[r].ready = Cond("True", "Ready")
                   /\ mobileid[r].supi = SuciToSupiTable[mobileid[r].suci]
              ELSE /\ mobileid[r].ready = Cond("False", "MobileIdentityNotFound")
                   /\ mobileid[r].supi = ""
    /\ \A r1, r2 \in DOMAIN mobileid :
         Answered(r1) /\ Answered(r2) /\ mobileid[r1].suci = mobileid[r2].suci
           => mobileid[r1] = mobileid[r2]

\* The AUSF has answered a request it resolves and one it does not.
C14_Witness ==
    \E r1, r2 \in DOMAIN mobileid :
      /\ Answered(r1) /\ Answered(r2)
      /\ mobileid[r1].ready = Cond("True", "Ready")
      /\ mobileid[r1].supi # ""
      /\ mobileid[r2].ready = Cond("False", "MobileIdentityNotFound")

-----------------------------------------------------------------------------
(* UDM: the config controller on its own *)

\* A client of the UDM creates a Config request by name (udm_test.go) and
\* deletes it, which leaves a Deleted request with the controller.
CreateConfig(g) ==
    /\ g \notin DOMAIN udmconfig
    /\ udmconfig' = Put(udmconfig, g, NewConfig)
    /\ pendUdm' = pendUdm \cup {g}
    /\ UNCHANGED <<registration, regstate, mobileid, regtable, cfgreq, cfgq,
                   pendInput, pendAusf, deleted, ops, sessvars, now, backoff, rebuild, deletedReq, procvars>>

DeleteConfig(g) ==
    /\ g \in DOMAIN udmconfig
    /\ udmconfig' = Drop(udmconfig, g)
    /\ deletedReq' = [deletedReq EXCEPT ![g] = "queued"]
    /\ UNCHANGED <<registration, regstate, mobileid, regtable, cfgreq, cfgq,
                   pendInput, pendAusf, pendUdm, deleted, ops, sessvars, now, backoff,
                   rebuild, procvars>>

\* A Reconcile without the switch on the event type: a Deleted request is
\* handled as an Added one, with the Get and the status write.
ReconcileDeletedGet(g) ==
    /\ deletedReq[g] = "queued"
    /\ deletedReq' = [deletedReq EXCEPT ![g] = "logged"]
    /\ IF g \notin DOMAIN udmconfig
       THEN /\ udmconfig' = udmconfig
            /\ backoff' = backoff \cup {g}
       ELSE /\ udmconfig' = [udmconfig EXCEPT ![g] = Answer(g, TRUE)]
            /\ backoff' = backoff
    /\ UNCHANGED <<registration, regstate, mobileid, regtable, cfgreq, cfgq,
                   pendInput, pendAusf, pendUdm, deleted, ops, sessvars, now,
                   rebuild, procvars>>

\* udm.go Reconcile for a Deleted request: it logs the request and returns
\* no error, so the controller forgets the request; the store is neither
\* read nor written, whether the Config is gone or has been created again.
ReconcileDeleted(g) ==
    /\ deletedReq[g] = "queued"
    /\ deletedReq' = [deletedReq EXCEPT ![g] = "logged"]
    /\ UNCHANGED <<registration, regstate, mobileid, udmconfig, regtable, cfgreq, cfgq,
                   pendInput, pendAusf, pendUdm, deleted, ops, sessvars, now, backoff,
                   rebuild, procvars>>

ConfigClient == \E g \in Gutis : CreateConfig(g) \/ DeleteConfig(g)

\* The reconciler over a store that may refuse an update.
UdmStore == \E g \in Gutis, genOK \in BOOLEAN, updOK \in BOOLEAN : Reconcile(g, genOK, updOK)

\* The requests of deleted Configs.
UdmDeleted == \E g \in Gutis : ReconcileDeleted(g)

Delivery == \E g \in Gutis : Retry(g) \/ Redeliver(g)

NextUdm == ConfigClient \/ UdmStore \/ UdmDeleted \/ Delivery \/ Tick

SpecUdm == Init /\ [][NextUdm]_vars

\* The controller's worker takes the requests of its queue.
FairSpecUdm == SpecUdm /\ \A g \in Gutis : WF_vars(\E genOK \in BOOLEAN : Reconcile(g, genOK, TRUE))

\* C15: for every Added/Updated/Upserted request of a Config of the store,
\* the status the reconciler writes has exactly one condition, of type
\* Ready: Ready=True/Ready with a non-empty status.config when the
\* credential was generated, Ready=False/ConfigUnavailable and no
\* status.config field when it was not; the process goes on serving.
C15_StatusOfOutcome ==
    [][\A g \in Gutis, genOK \in BOOLEAN :
         g \in DOMAIN udmconfig /\ Reconcile(g, genOK, TRUE) =>
           LET st == udmconfig'[g].status IN
           /\ DOMAIN st.conditions = {1}
           /\ st.conditions[1].type = "Ready"
           /\ IF genOK
              THEN /\ st.conditions[1].status = "True"
                   /\ st.conditions[1].reason = "Ready"
                   /\ DOMAIN st = {"conditions", "config"}
                   /\ st.config \notin {"", NilConfig}
              ELSE /\ st.conditions[1].status = "False"
                   /\ st.conditions[1].reason = "ConfigUnavailable"
                   /\ DOMAIN st = {"conditions"}
           /\ main.pc = "blocked" /\ main' = main /\ running' = running]_vars

\* One Config answered with a credential next to one whose credential could
\* not be generated and whose retry waits.
C15_Witness ==
    \E g1, g2 \in DOMAIN udmconfig :
      /\ udmconfig[g1].label = "ConfigAvailable" /\ ConfigReady(udmconfig[g1])
      /\ ConfigOf(udmconfig[g1]) # ""
      /\ udmconfig[g2].label = "ConfigAvailable" /\ ~ConfigReady(udmconfig[g2])
      /\ DOMAIN udmconfig[g2].status = {"conditions"}
      /\ g2 \in backoff
      /\ main.pc = "blocked"

\* C16: delivering the event of an answered Config again, with the outcome it
\* had, leaves the store as the first delivery left it.
C16_RedeliveryIdempotent ==
    [][\A g \in Gutis, genOK \in BOOLEAN :
         /\ g \in DOMAIN udmconfig
         /\ udmconfig[g].label = "ConfigAvailable"
         /\ ConfigReady(udmconfig[g]) = genOK
         /\ Reconcile(g, genOK, TRUE)
         => udmconfig' = udmconfig]_vars

\* C17: when the store refuses the reconciler's status update, the error is
\* reported on the error channel and the request stays with the controller
\* for another delivery.
C17_FailedWriteReported ==
    [][\A g \in Gutis, genOK \in BOOLEAN :
         /\ g \in DOMAIN udmconfig
         /\ Answer(g, genOK) # udmconfig[g]
         /\ Reconcile(g, genOK, FALSE)
         => /\ g \in pendUdm' \cup backoff'
            /\ errorChan'.pending > errorChan.pending]_vars

-----------------------------------------------------------------------------
(* The process from main to the return of Start *)

NextProcess ==
    \/ MainNew
    \/ Cancel
    \/ DctrlStart
    \/ \E c \in Components : RunnableStop(c)
    \/ \E op \in Operators : ReportError(op)
    \/ ErrorLoggerLog
    \/ ErrorLoggerReturn
    \/ StartReturn

InitMain == InitRegistrations /\ InitSessions /\ InitProcess

SpecProcess == InitMain /\ [][NextProcess]_vars

\* main goes on from one call to the next, and a goroutine or a Start whose
\* context is done gets to see it; signals and errors come as they please.
FairSpecProcess ==
    /\ SpecProcess
    /\ WF_vars(MainNew)
    /\ WF_vars(DctrlStart)
    /\ \A c \in Components : WF_vars(RunnableStop(c))
    /\ WF_vars(ErrorLoggerReturn)
    /\ WF_vars(StartReturn)

\* Everything Start has started has stopped.
AllStopped == \A c \in Components : running[c] = "stopped"

\* C18: Start does not return while its context is live; once the context is
\* cancelled, the API server, every operator, the shared store and the error
\* logger stop and Start returns.
C18_StartUntilCancelled ==
    /\ [](main.pc = "returned" => ctx = "cancelled")
    /\ [][main.pc = "blocked" /\ ctx' = "active" => main'.pc = "blocked"]_vars
    /\ [][ctx = "active" /\ ctx' = "active" => running' = running \/ main.pc = "start"]_vars
    /\ (ctx = "cancelled") ~> (main.pc = "returned" /\ AllStopped)

\* Start has returned after a cancellation and nothing runs any more.
C18_Witness ==
    /\ main.pc = "returned"
    /\ ctx = "cancelled"
    /\ AllStopped
    /\ errorChan.closed

\* New meets a step that fails in this environment.
NewFails(opts) == opts.failAt # "none" /\ ~Skipped(opts, opts.failAt)

\* C19: when a step of New fails, New returns the error of that step and no
\* Dctrl, main leaves, and neither the API server nor an operator nor the
\* store is ever started.
C19_NothingStartedOnFailure ==
    main.pc # "new" /\ NewFails(options) =>
      /\ main = [pc |-> "exit1", err |-> options.failAt]
      /\ dctrl = NilDctrl
      /\ ctx = "none"
      /\ \A c \in Components : running[c] = "idle"

\* New has failed at its last step, the UDM operator, with the declarative
\* operators already created.
C19_Witness ==
    /\ main.pc = "exit1"
    /\ options.failAt = "udm"
    /\ dctrl.nil
    /\ \A c \in Components : running[c] = "idle"

-----------------------------------------------------------------------------
(* SMF: the active-session table *)

\* The entries of the table for the SessionContext k.
EntriesOf(k) == {e \in sesstable : e.name = k}

\* C20: at a quiescent point ActiveSessionTable holds exactly one entry
\* {name, guti, sessionId, idle} for every SessionContext whose Validated and
\* PolicyApplied conditions are True, idle or not, and no entry for any other
\* name; the entry of an idle session shows idle=true and a deleted
\* SessionContext has none.
C20_ActiveSessionTable ==
    Quiescent =>
      /\ \A k \in Sessions \cup {TestSession} :
           IF /\ k \in DOMAIN sessionctx
              /\ sessionctx[k].input.validated.status = "True"
              /\ sessionctx[k].policy.status = "True"
           THEN EntriesOf(k) = {[name |-> k,
                                 guti |-> sessionctx[k].input.spec.guti,
                                 sessionId |-> sessionctx[k].input.spec.sessionId,
                                 idle |-> sessionctx[k].idle]}
           ELSE EntriesOf(k) = {}
      /\ \A e \in sesstable : e.name \in Sessions \cup {TestSession}

\* A quiescent point with an idle session, whose UPF is not configured, in
\* the table next to the fixture member.
C20_Witness ==
    /\ Quiescent
    /\ \E e \in sesstable :
         /\ e.name \in Sessions
         /\ e.idle
         /\ sessionctx[e.name].upf.status = "False"
    /\ Cardinality(sesstable) = 2

-----------------------------------------------------------------------------
(* UPF: the active-config table *)

\* The entries of the table for the Config k.
ConfigEntriesOf(k) == {e \in cfgtable : e.name = k}

\* C21: at a quiescent point ActiveConfigTable holds exactly one entry
\* {name, trafficSpec} for every UPF:Config that exists and no other entry;
\* an idle session has no entry, and a session whose ContextRelease was
\* deleted has its entry again.
C21_ActiveConfigTable ==
    Quiescent =>
      /\ \A k \in Sessions \cup {TestSession} :
           IF k \in DOMAIN upfconfig
           THEN ConfigEntriesOf(k) = {[name |-> k, spec |-> upfconfig[k]]}
           ELSE ConfigEntriesOf(k) = {}
      /\ \A e \in cfgtable : e.name \in Sessions \cup {TestSession}
      /\ \A k \in Sessions :
           /\ k \in DOMAIN sessionctx /\ sessionctx[k].idle => ConfigEntriesOf(k) = {}
           /\ IdleReleased(k) =>
                ConfigEntriesOf(k) = {[name |-> k, spec |-> snapshot[k].config]}

\* A quiescent point where the Config of a session that was idle is in the
\* table again, with the address the session had been given.
C21_Witness ==
    /\ Quiescent
    /\ cycles >= 1
    /\ \E k \in Sessions :
         /\ IdleReleased(k)
         /\ \E e \in cfgtable : e.name = k /\ e.spec.network.ip \in IpPool
    /\ Cardinality(cfgtable) = 2

-----------------------------------------------------------------------------
(* session-context-handler as a function of the SessionContext *)

\* The flows a SessionContext is drawn from: each 5QI of the template, with
\* bitrates below, at and above the policy's, and one asymmetric.
FlowPool ==
    {Flow("voice-flow", "ConversationalVoice", TemplateBwKbps, TemplateBwKbps),
     Flow("video-flow", "ConversationalVoice", TemplateBwKbps, MaxBwKbps \div 2),
     Flow("data-flow", "BestEffort", MaxBwKbps, MaxBwKbps \div 2),
     Flow("best-effort-flow", "BestEffort", 0, 0),
     Flow("dummy-flow", "Dummy", TemplateBwKbps, 0)}

HandlerSpecs ==
    {SessSpec(guti, "eMBB", SessionId, pdu, TemplateRequests, flows, TemplateRules) :
       guti \in {"dummy", GutiE0}, pdu \in {"IPv4", "IPv6", "IPv4v6"},
       flows \in (SUBSET FlowPool) \ {{}}}

\* session-input has just written the SessionContext of a Session of any of
\* these specs; user-1 is registered.
InitHandlerInput ==
    /\ Registered
    /\ \E k \in Sessions, spec \in HandlerSpecs :
         /\ session = Put(Empty, k, [spec |-> spec, status |-> NoSessionStatus])
         /\ sessionctx = Put(Put(Empty, TestSession, TestSessionContext), k,
                             NewSessionContext(spec, regtable))
    /\ pendSession = {}
    /\ upfconfig = Put(Empty, TestSession, TrafficSpec(TestSessionContext))
    /\ ctxrelease = Empty
    /\ sesstable = {SessEntry(TestSession, TestSessionContext)}
    /\ cfgtable = {ConfigEntry(TestSession, TrafficSpec(TestSessionContext))}
    /\ idlereq = [k \in Sessions |-> FALSE]
    /\ idleq = [k \in Sessions |-> <<>>]
    /\ snapshot = [k \in Sessions |-> NoSnapshot]
    /\ cycles = 0
    /\ sops = 1
    /\ Serving

NextHandlerInput == \E k \in Sessions, ip \in IpPool : SessionContextHandler(k, ip)

SpecHandlerInput == InitHandlerInput /\ [][NextHandlerInput]_vars

\* The handler has processed the SessionContext of k.
Handled(k) ==
    /\ k \in DOMAIN sessionctx
    /\ IsTrue(sessionctx[k].input.validated)
    /\ sessionctx[k].policy # Unknown

\* C22: session-context-handler keeps in status.qos.flows exactly the
\* requested flows whose fiveQI the PCF's policy permits
\* (ConversationalVoice, BestEffort), caps the uplink and the downlink
\* bitrate of each kept flow at the policy's value (256 becomes 128), and
\* sets PolicyApplied=True/PolicyApplied when pduSessionType is IPv4 and
\* PolicyApplied=False/AddressFamilyNotSupported otherwise.
C22_PolicyApplied ==
    \A k \in Sessions :
      Handled(k) =>
        LET sc == sessionctx[k]
            requested == sc.input.spec.flows
            permitted == {f \in requested : f.fiveQI \in {"ConversationalVoice", "BestEffort"}}
            capped(x) == IF x > MaxBwKbps THEN MaxBwKbps ELSE x
        IN /\ {g.name : g \in sc.flows} = {f.name : f \in permitted}
           /\ Cardinality(sc.flows) = Cardinality(permitted)
           /\ \A f \in permitted : \E g \in sc.flows :
                /\ g.name = f.name
                /\ g.fiveQI = f.fiveQI
                /\ g.uplinkBwKbps = capped(f.uplinkBwKbps)
                /\ g.downlinkBwKbps = capped(f.downlinkBwKbps)
           /\ sc.input.spec.pduSessionType = "IPv4" => sc.policy = Cond("True", "PolicyApplied")
           /\ sc.input.spec.pduSessionType # "IPv4"
                => sc.policy = Cond("False", "AddressFamilyNotSupported")

\* An IPv6 session asked for the whole pool: the Dummy flow is dropped, the
\* voice flow comes out at 128/128 and the policy is not applied.
C22_Witness ==
    \E k \in Sessions :
      /\ Handled(k)
      /\ sessionctx[k].input.spec.flows = FlowPool
      /\ sessionctx[k].input.spec.pduSessionType = "IPv6"
      /\ sessionctx[k].policy = Cond("False", "AddressFamilyNotSupported")
      /\ Cardinality(sessionctx[k].flows) = 4
      /\ Flow("voice-flow", "ConversationalVoice", MaxBwKbps, MaxBwKbps) \in sessionctx[k].flows

-----------------------------------------------------------------------------
(* The GUTI as a function of the SUCI *)

\* The registrations the AMF has assigned a GUTI to (the fixture member of
\* the table is loaded with its GUTI).
WithGuti == {r \in Regs \cap DOMAIN regstate : regstate[r].guti # ""}

\* C23: the GUTI assigned to a registration depends only on the SUPI
\* resolved for its SUCI: any two registrations with the same SUCI have the
\* same GUTI whatever their names and the order of the steps, and
\* registrations with different fixture SUCIs have different GUTIs.
C23_GutiBySuci ==
    /\ \A r \in WithGuti :
         /\ regstate[r].suci \in DOMAIN SuciToSupiTable
         /\ regstate[r].guti = GutiOf(SuciToSupiTable[regstate[r].suci])
    /\ \A r1, r2 \in WithGuti :
         /\ regstate[r1].suci = regstate[r2].suci => regstate[r1].guti = regstate[r2].guti
         /\ regstate[r1].suci # regstate[r2].suci => regstate[r1].guti # regstate[r2].guti

-----------------------------------------------------------------------------
(* The requests to the AUSF and the UDM follow the conditions of the RegState *)

\* RegState k has Validated=True.
ValidatedState(k) == k \in DOMAIN regstate /\ IsTrue(regstate[k].validated)

\* Some RegState with the GUTI g has Authenticated=True.
AuthenticatedGuti(g) ==
    \E r \in DOMAIN regstate : regstate[r].guti = g /\ IsTrue(regstate[r].authenticated)

\* The requests that exist are those of validated and of authenticated
\* RegStates.
RequestsGated ==
    /\ \A k \in DOMAIN mobileid : ValidatedState(k)
    /\ \A g \in DOMAIN udmconfig : AuthenticatedGuti(g)

\* C24 as stated: in every reachable state, a MobileIdentity request for key
\* k exists only if RegState k has Validated=True, and a UDM Config request
\* for a GUTI exists only if some RegState with that GUTI has
\* Authenticated=True.
C24_RequestsGatedAlways == RequestsGated

\* A step writes the MobileIdentity request of k.
IdentityRequested(k) ==
    /\ k \in DOMAIN mobileid'
    /\ k \notin DOMAIN mobileid \/ mobileid'[k].suci # mobileid[k].suci

\* A step queues the Config request of GUTI g for r with register-config-req.
ConfigRequested(r, g) ==
    /\ Len(cfgq'[r]) > Len(cfgq[r])
    /\ cfgq'[r][Len(cfgq'[r])] = g

\* C24: a MobileIdentity request for key k is written only while RegState k
\* has Validated=True and a Config request for a GUTI is emitted only for a
\* RegState with that GUTI that has Validated=True and Authenticated=True, so
\* a registration that fails validation never causes either to be created;
\* and whenever the loops are quiescent, a MobileIdentity request for k
\* exists only if RegState k has Validated=True and a Config request for a
\* GUTI exists only if some RegState with that GUTI has Authenticated=True.
C24_RequestsGated ==
    /\ [](Quiescent => RequestsGated)
    /\ [][/\ \A k \in Regs : IdentityRequested(k) => ValidatedState(k)
          /\ \A r \in Regs : \A g \in Gutis :
               ConfigRequested(r, g) =>
                 /\ r \in DOMAIN regstate'
                 /\ IsTrue(regstate'[r].validated)
                 /\ IsTrue(regstate'[r].authenticated)
                 /\ regstate'[r].guti = g
          /\ \A g \in Gutis :
               g \notin DOMAIN udmconfig /\ g \in DOMAIN udmconfig'
                 => \E r \in Regs : cfgq[r] # <<>> /\ Head(cfgq[r]) = g]_vars

\* user-1 is registered with both requests in place, and the rejected user-2
\* has neither.
C24_Witness ==
    /\ Quiescent
    /\ "user-1" \in DOMAIN mobileid /\ ValidatedState("user-1")
    /\ GutiE0 \in DOMAIN udmconfig /\ AuthenticatedGuti(GutiE0)
    /\ "user-2" \in DOMAIN regstate /\ regstate["user-2"].validated.status = "False"
    /\ "user-2" \notin DOMAIN mobileid
    /\ DOMAIN udmconfig = {GutiE0}

-----------------------------------------------------------------------------
(* register-output writes decided outcomes only *)

\* A step writes the status of the Registration r.
StatusWritten(r) ==
    /\ r \in DOMAIN registration
    /\ r \in DOMAIN registration'
    /\ registration'[r].status # registration[r].status

\* The SubscriptionInfoRetrieved condition of RegState r is True or False.
Definite(r) ==
    r \in DOMAIN regstate /\ regstate[r].subscriptionInfo.status \in {"True", "False"}

Failed(r) ==
    /\ r \in DOMAIN regstate
    /\ regstate[r].validated.status = "False" \/ regstate[r].authenticated.status = "False"

-----------------------------------------------------------------------------
(* A ContextRelease that is not Ready leaves the session alone *)

\* A step creates, validates or deletes the ContextRelease k, which has
\* Ready=True neither before nor after it.
NotReadyStep(k) ==
    /\ k \in DOMAIN ctxrelease \/ k \in DOMAIN ctxrelease'
    /\ k \in DOMAIN ctxrelease /\ k \in DOMAIN ctxrelease' => ctxrelease'[k] # ctxrelease[k]
    /\ k \in DOMAIN ctxrelease => ~IsTrue(ctxrelease[k].ready)
    /\ k \in DOMAIN ctxrelease' => ~IsTrue(ctxrelease'[k].ready)

\* A step changes spec.idle of the SessionContext k.
IdleChanged(k) ==
    /\ k \in DOMAIN sessionctx
    /\ k \in DOMAIN sessionctx'
    /\ sessionctx'[k].idle # sessionctx[k].idle

\* C26: a ContextRelease whose Ready condition is not True never changes any
\* SessionContext: creating it, validating it and deleting it leave every
\* SessionContext, the UPF Config and the three tables unchanged and hand
\* nothing to session-context-release-output, spec.idle changes only when
\* that loop takes a change of a Ready ContextRelease, and once the loops
\* are quiescent no session is idle without a Ready ContextRelease.
C26_NotReadyChangesNothing ==
    /\ [][/\ \A k \in Sessions :
               NotReadyStep(k) =>
                 UNCHANGED <<sessionctx, upfconfig, regtable, sesstable, cfgtable, idleq, idlereq>>
          /\ \A k \in Sessions :
               IdleChanged(k) => idleq[k] # <<>> /\ sessionctx'[k].idle = Head(idleq[k])
          /\ \A k \in Sessions :
               Len(idleq'[k]) > Len(idleq[k]) =>
                 \/ k \in DOMAIN ctxrelease' /\ IsTrue(ctxrelease'[k].ready)
                 \/ k \in DOMAIN ctxrelease /\ IsTrue(ctxrelease[k].ready)]_vars
    /\ [](Quiescent =>
            \A k \in Sessions \cap DOMAIN sessionctx :
              sessionctx[k].idle => k \in DOMAIN ctxrelease /\ IsTrue(ctxrelease[k].ready))

\* The session of user-1 is active and configured next to a rejected
\* ContextRelease of its name.
C26_Witness ==
    /\ Quiescent
    /\ \E k \in Sessions :
         /\ k \in DOMAIN ctxrelease
         /\ ctxrelease[k].ready = Cond("False", "GutiNotFound")
         /\ Active(k)
         /\ ~sessionctx[k].idle
         /\ idleq[k] = <<>>
         /\ \E e \in sesstable : e.name = k
         /\ \E e \in cfgtable : e.name = k

-----------------------------------------------------------------------------
(* The joins converge whatever side arrives first *)

\* One subscriber who sends any registration request and any session
\* request, in any order.
JoinUser ==
    \/ \E spec \in RegFixtures : CreateRegistration("user-1", spec)
    \/ SessionOnlyUser

NextJoin == JoinUser \/ EstablishmentLoops

SpecJoin == Init /\ [][NextJoin]_vars

\* The Authenticated condition a registration request ends with.
AuthenticatedOf(spec) ==
    IF ~IsTrue(Validate(spec)) THEN Unknown
    ELSE IF spec.idValue \in DOMAIN SuciToSupiTable
            /\ SuciToSupiTable[spec.idValue] \in DOMAIN SupiToGutiTable
         THEN Cond("True", "AuthenticationSuccess")
         ELSE Cond("False", "SupiNotFound")

\* The SubscriptionInfoRetrieved condition it ends with, given the answer of
\* the UDM.
SubscriptionInfoOf(spec) ==
    IF ~IsTrue(AuthenticatedOf(spec)) THEN Unknown
    ELSE LET g == SupiToGutiTable[SuciToSupiTable[spec.idValue]] IN
         IF g \in DOMAIN udmconfig /\ ConfigReady(udmconfig[g])
         THEN Cond("True", "ConfigReady")
         ELSE Cond("False", "ConfigNotFound")

\* The PolicyApplied condition a session request ends with.
PolicyAppliedOf(spec) ==
    IF ~IsTrue(ValidateSession(spec, regtable)) THEN Unknown
    ELSE IF spec.pduSessionType = "IPv4" THEN Cond("True", "PolicyApplied")
    ELSE Cond("False", "AddressFamilyNotSupported")

\* The join of r has no answer from the AUSF to work with.
IdentityMissing(r) == r \notin DOMAIN mobileid \/ mobileid[r].label # "Ready"

\* The join of r has no answer from the UDM to work with.
ConfigMissing(r) ==
    \/ regstate[r].guti \notin DOMAIN udmconfig
    \/ udmconfig[regstate[r].guti].label # "ConfigAvailable"

-----------------------------------------------------------------------------
(* The table under concurrent changes of its member set *)

\* The registration loops with the rebuild of the table in two steps.
AmfRebuild ==
    \/ \E r \in Regs : RegisterInput(r)
    \/ \E r \in Regs : RegisterIdentityReq(r)
    \/ \E r \in Regs : RegisterIdentityHandler(r)
    \/ \E r \in Regs : RegisterConfigReq(r)
    \/ \E r \in Regs : RegisterConfigHandler(r)
    \/ \E r \in Regs : RegisterOutput(r)
    \/ ActiveRegistrationRead
    \/ ActiveRegistrationWrite

\* The two subscribers of the tests register and deregister at any time.
SuciOfUser == ("user-1" :> SuciC0) @@ ("user-2" :> SuciC1)

RebuildUser ==
    \/ \E r \in Regs : CreateRegistration(r, LegitReg(SuciOfUser[r]))
    \/ \E r \in Regs : DeleteRegistration(r)

NextRebuild == RebuildUser \/ AmfRebuild \/ Ausf \/ Udm

SpecRebuild == Init /\ [][NextRebuild]_vars

QuiescentRebuild == ~ENABLED (AmfRebuild \/ Ausf \/ Udm)

\* The live members: the Registrations that exist and whose RegState has its
\* three conditions True.
LiveMembers ==
    {r \in DOMAIN registration \cap DOMAIN regstate :
       /\ regstate[r].validated.status = "True"
       /\ regstate[r].authenticated.status = "True"
       /\ regstate[r].subscriptionInfo.status = "True"}

-----------------------------------------------------------------------------
(* Who writes what *)

\* A step changes the status of an object of f that exists before and after,
\* or its spec.
StatusChanged(f, k) ==
    k \in DOMAIN f /\ k \in DOMAIN f' /\ f'[k].status # f[k].status

SpecChanged(f, k) ==
    k \in DOMAIN f /\ k \in DOMAIN f' /\ f'[k].spec # f[k].spec

\* RegState and the three tables have one writer each, and the user-facing
\* objects have their status written by the AMF and their spec by nobody.
SingleWriters ==
    /\ regstate' # regstate => Amf
    /\ regtable' # regtable => Amf
    /\ sesstable' # sesstable => Smf
    /\ cfgtable' # cfgtable => Upf
    /\ \A r \in Regs : StatusChanged(registration, r) => Amf
    /\ \A k \in Sessions : StatusChanged(session, k) => AmfSession
    /\ \A k \in Sessions :
         /\ k \in DOMAIN ctxrelease /\ k \in DOMAIN ctxrelease'
         /\ ctxrelease'[k].ready # ctxrelease[k].ready
         => AmfSession
    /\ \A r \in Regs : ~SpecChanged(registration, r)
    /\ \A k \in Sessions : ~SpecChanged(session, k)
    /\ \A k \in Sessions : ~SpecChanged(ctxrelease, k)

\* C30 as stated: every internal or derived entity kind (RegState,
\* SessionContext, the three Active tables) is written by exactly one network
\* function, and a user-facing entity (Registration, Session, ContextRelease)
\* has only its status written, and only by its owning function; in
\* particular no function other than the SMF writes a SessionContext.
C30_SmfOwnsSessionContext ==
    [][SingleWriters /\ (sessionctx' # sessionctx => Smf)]_vars

\* C30: RegState and the three Active tables are written by exactly one
\* network function each, and a user-facing entity (Registration, Session,
\* ContextRelease) has only its status written, and only by the AMF; a
\* SessionContext is created, re-validated and deleted by the AMF's
\* session-input, has spec.idle patched by the AMF's
\* session-context-release-output and has its conditions, network
\* configuration and QoS written by the SMF's session-context-handler, and
\* is written by nothing else.
C30_Ownership ==
    [][/\ SingleWriters
       /\ sessionctx' # sessionctx => AmfSession \/ Smf
       /\ \A k \in Sessions \cup {TestSession} :
            /\ (k \in DOMAIN sessionctx) # (k \in DOMAIN sessionctx') => SessionInput(k)
            /\ k \in DOMAIN sessionctx /\ k \in DOMAIN sessionctx' =>
                 /\ sessionctx'[k].input # sessionctx[k].input => SessionInput(k)
                 /\ sessionctx'[k].idle # sessionctx[k].idle => SessionContextReleaseOutput(k)
                 /\ HandlerPart(sessionctx'[k]) # HandlerPart(sessionctx[k])
                      => \E ip \in IpPool : SessionContextHandler(k, ip)]_vars

\* A SessionContext that the AMF has created and marked idle and the SMF has
\* processed, with its Session showing the status the AMF copied.
C30_Witness ==
    \E k \in Sessions :
      /\ k \in DOMAIN sessionctx
      /\ k \in DOMAIN session
      /\ sessionctx[k].idle
      /\ sessionctx[k].upf = Cond("False", "Idle")
      /\ session[k].status.upfConfigured = Cond("False", "Idle")
      /\ \E e \in sesstable : e.name = k /\ e.idle

-----------------------------------------------------------------------------
(* session-context-handler run again *)

\* The handler has given the SessionContext k an address.
Addressed(k) ==
    /\ k \in DOMAIN sessionctx
    /\ IsTrue(sessionctx[k].input.validated)
    /\ sessionctx[k].network.ip # ""

-----------------------------------------------------------------------------
(* Dctrl.Start: a component whose Start returns an error *)

\* A Start in which the error of one component ends everything: the context
\* is cancelled as an error group would cancel it.
RunnableFailFatal(c) ==
    /\ c \in {"apiServer"} \cup Operators
    /\ running[c] = "running"
    /\ ~Done
    /\ running' = [running EXCEPT ![c] = "failed"]
    /\ ctx' = "cancelled"
    /\ UNCHANGED <<regvars, sessvars, now, options, main, dctrl, errorChan, udmErrorChan>>

\* dctrl.go Start, the two goroutine bodies: the Start of the API server or
\* of an operator returns an error while the context is live; the goroutine
\* logs it and ends. Nothing is sent on the error channel and nothing else
\* is told.
RunnableFail(c) ==
    /\ c \in {"apiServer"} \cup Operators
    /\ running[c] = "running"
    /\ ~Done
    /\ running' = [running EXCEPT ![c] = "failed"]
    /\ UNCHANGED <<regvars, sessvars, now, options, main, dctrl, ctx, errorChan, udmErrorChan>>

NextFailing ==
    \/ NextProcess
    \/ \E c \in Components : RunnableFail(c)

SpecFailing == InitMain /\ [][NextFailing]_vars

\* The components whose Start has returned an error.
FailedComponents == {c \in Components : running[c] = "failed"}

\* C32: when the Start of the API server or of one operator returns an
\* error, every other component, the store included, stays as it is, the
\* context stays live and Start does not return; while the context is live
\* and whatever has failed, Start is blocked in the store and every component
\* that has not failed itself runs.
C32_FailureIsolated ==
    /\ [][\A c \in Components :
            running[c] = "running" /\ running'[c] = "failed"
              => /\ \A d \in Components \ {c} : running'[d] = running[d]
                 /\ main' = main
                 /\ ctx' = ctx
                 /\ errorChan' = errorChan]_vars
    /\ [](FailedComponents # {} /\ main.pc = "returned" => ctx = "cancelled")
    /\ [](FailedComponents # {} /\ ctx = "active" /\ main.pc # "start"
            => /\ main.pc = "blocked"
               /\ running["cache"] = "running"
               /\ running["errorLogger"] = "running"
               /\ \A d \in dctrl.ops \cup {"apiServer"} :
                    running[d] \in {"running", "failed"})

\* The API server and one operator have failed; the other operators, the
\* error logger and the store run and Start has not returned.
C32_Witness ==
    /\ ctx = "active"
    /\ main.pc = "blocked"
    /\ running["apiServer"] = "failed"
    /\ running["amf"] = "failed"
    /\ running["cache"] = "running"
    /\ \A d \in Components \ {"apiServer", "amf"} : running[d] = "running"

-----------------------------------------------------------------------------
(* UDM: Configs that are created once *)

\* Configs are created and never deleted; the controller reconciles them and
\* retries the requests that failed, and time passes.
NextCreated ==
    \/ \E g \in Gutis : CreateConfig(g)
    \/ UdmStore
    \/ \E g \in Gutis : Retry(g)
    \/ Tick

SpecCreated == Init /\ [][NextCreated]_vars

\* The worker takes the requests of the queue and the delay of a retry ends.
FairSpecCreated ==
    /\ SpecCreated
    /\ \A g \in Gutis : WF_vars(\E genOK \in BOOLEAN : Reconcile(g, genOK, TRUE))
    /\ \A g \in Gutis : WF_vars(Retry(g))

\* The controller holds no request of the Config, neither queued nor waiting
\* for a retry.
Settled(g) == g \notin pendUdm \cup backoff

-----------------------------------------------------------------------------
(* UDM: the Deleted request *)

\* C34: a reconcile of a Deleted request of a Config leaves the store as it
\* is, whether the Config is gone or exists again, returns no error, so that
\* nothing is kept for a retry or queued, and reports nothing.
C34_DeletedIsNoOp ==
    [][\A g \in Gutis :
         deletedReq[g] = "queued" /\ deletedReq'[g] = "logged" =>
           /\ udmconfig' = udmconfig
           /\ backoff' = backoff
           /\ pendUdm' = pendUdm
           /\ errorChan' = errorChan
           /\ now' = now]_vars

\* The Deleted requests of two Configs have been reconciled: one Config is
\* gone, the other has been created again and has
\* been answered since.
C34_Witness ==
    \E g, h \in Gutis :
      /\ deletedReq[g] = "logged"
      /\ g \notin DOMAIN udmconfig
      /\ deletedReq[h] = "logged"
      /\ h \in DOMAIN udmconfig
      /\ ConfigReady(udmconfig[h])
      /\ Settled(g) /\ Settled(h)

-----------------------------------------------------------------------------
(* Dctrl.Start: the close of the error channel *)

\* C35: no operator sends on the error channel after Start has closed it:
\* no send has ever panicked.
C35_NoSendAfterClose == ~errorChan.panicked

-----------------------------------------------------------------------------
(* The error channels *)

\* C36: every error an operator reports arrives on the channel of the
\* process, the one the error logger of Start drains: a report on the open
\* channel adds one error to it, and no error waits anywhere else.
C36_SingleErrorChannel ==
    /\ [][\A op \in Operators :
            ReportError(op) /\ ~errorChan.closed
              => errorChan'.pending = errorChan.pending + 1]_vars
    /\ [](udmErrorChan = 0)

-----------------------------------------------------------------------------
(* Registrations that share a GUTI: the Config of the survivor *)

\* C37: at a quiescent point the UDM Config named by the GUTI of every
\* RegState with SubscriptionInfoRetrieved=True exists, and a Registration
\* that shows Ready=True with the GUTI another Registration had when it was
\* deleted still has its Config.
C37_ConfigOfReady ==
    Quiescent =>
      /\ \A r \in Regs \cap DOMAIN regstate :
           IsTrue(regstate[r].subscriptionInfo) => regstate[r].guti \in DOMAIN udmconfig
      /\ \A r \in DOMAIN registration, o \in Regs, g \in Gutis :
           /\ DeletedReady(o, g)
           /\ IsTrue(registration[r].status.ready)
           /\ registration[r].status.guti = g
           => g \in DOMAIN udmconfig

-----------------------------------------------------------------------------
(* ContextRelease: the SessionContext that is patched *)

\* A release that names the GUTI and the session id of the fixture session,
\* sent under the name of the subscriber's own session.
ForeignRelease == ReleaseSpec(GutiTest, SessionId)

ForeignUser ==
    \/ \E k \in Sessions : CreateSession(k, LegitSession)
    \/ \E k \in Sessions : CreateContextRelease(k, ForeignRelease)
    \/ \E k \in Sessions : DeleteContextRelease(k)

NextForeign == Subscriber \/ ForeignUser \/ Loops

SpecForeign == Init /\ [][NextForeign]_vars

\* The SessionContext j is the one the release spec refers to.
Referenced(j, spec) ==
    /\ sessionctx[j].input.spec.guti = spec.guti
    /\ sessionctx[j].input.spec.sessionId = spec.sessionId

\* C38: when session-context-release-output emits the patch of a
\* ContextRelease that is Ready=True, the SessionContext with the GUTI and
\* the session id of the ContextRelease's spec is idle afterwards and the idle
\* flag of every other SessionContext is as it was.
C38_IdleByReference ==
    [][\A k \in Sessions :
         /\ k \in DOMAIN ctxrelease
         /\ IsTrue(ctxrelease[k].ready)
         /\ idleq[k] # <<>>
         /\ Head(idleq[k])
         /\ SessionContextReleaseOutput(k)
         => \A j \in DOMAIN sessionctx :
              IF Referenced(j, ctxrelease[k].spec)
              THEN sessionctx'[j].idle
              ELSE sessionctx'[j].idle = sessionctx[j].idle]_vars

-----------------------------------------------------------------------------
(* Sessions of a Registration that is deleted *)

\* The subscriber registers, sets up the template session, and deregisters
\* with or without deleting the session first.
DeregisterUser ==
    \/ Subscriber
    \/ DeleteRegistration("user-1")
    \/ \E k \in Sessions : CreateSession(k, LegitSession)
    \/ \E k \in Sessions : DeleteSession(k)

NextDeregister == DeregisterUser \/ EstablishmentLoops

SpecDeregister == Init /\ [][NextDeregister]_vars

\* The GUTI of the SessionContext k is in ActiveRegistrationTable.
GutiRegistered(k) == sessionctx[k].input.spec.guti \in TableGutis(regtable)

-----------------------------------------------------------------------------
(* The update of a Registration *)

\* The user replaces the spec of a Registration; the status stays as it is
\* until register-output writes it.  The event of the update reaches
\* register-input after the earlier events of the key.
UpdateRegistration(r, spec) ==
    /\ ops < MaxUserOps
    /\ r \in DOMAIN registration
    /\ r \notin pendInput
    /\ registration[r].spec # spec
    /\ registration' = [registration EXCEPT ![r].spec = spec]
    /\ pendInput' = pendInput \cup {r}
    /\ ops' = ops + 1
    /\ UNCHANGED <<regstate, mobileid, udmconfig, regtable, cfgreq, cfgq, pendAusf,
                   pendUdm, deleted, sessvars, now, backoff, rebuild, deletedReq, procvars>>

\* The subscriber registers and the registration is edited, into a request
\* that fails validation or back into the valid one.
UpdatingUser ==
    \/ Subscriber
    \/ \E spec \in RegFixtures \ {LegitReg(SuciC1), UnknownUserReg} :
         UpdateRegistration("user-1", spec)

NextUpdating == UpdatingUser \/ Amf \/ Ausf \/ Udm

SpecUpdating == Init /\ [][NextUpdating]_vars

FairSpecUpdating == SpecUpdating /\ FairRegistration

\* The spec the Registration r has now fails validation.
InvalidNow(r) ==
    r \in DOMAIN registration /\ ~IsTrue(Validate(registration[r].spec))

\* The Registration r shows Ready=True over a spec that fails validation: it
\* was Ready when the spec was replaced.
ReadyThenInvalid(r) == InvalidNow(r) /\ IsTrue(registration[r].status.ready)

\* The Registration r is rejected and nothing is left of its earlier
\* registration: it has no entry in the table, and its RegState carries
\* neither Authenticated=True nor SubscriptionInfoRetrieved=True.
Withdrawn(r) ==
    /\ Rejected(r)
    /\ ~\E e \in regtable : e.name = r
    /\ r \in DOMAIN regstate
    /\ ~IsTrue(regstate[r].authenticated)
    /\ ~IsTrue(regstate[r].subscriptionInfo)

====
